---- MODULE Spec2Model ----
(***************************************************************************)
(* sns-buster: differential authorization probing of Amazon SNS topics.    *)
(*                                                                         *)
(* The module models the action catalog, the mutation catalog, the         *)
(* mutation-change detector, the usefulness classifier and the             *)
(* request-mutations prober.                                               *)
(*                                                                         *)
(* Representation of JavaScript values:                                    *)
(*  - a string value is the sequence of its ':'-separated fields, so that  *)
(*    an ARN can be split as parseArn does; a literal that is never split  *)
(*    is kept as one field (Str);                                          *)
(*  - a parameter name is the sequence of its '.'-separated fields, so     *)
(*    that the regular expressions of the mutation catalog can be          *)
(*    evaluated on it;                                                     *)
(*  - a Record<string,string> is the sequence of its [k, v] entries in     *)
(*    insertion order (the order of Object.keys);                          *)
(*  - an optional value is a set with at most one element.                 *)
(***************************************************************************)
EXTENDS Integers, Sequences, FiniteSets, TLC

\* Largest member index that occurs in a parameter name (Tags.member.N.Key).
MaxIndex == 2

\* ------------------------------------------------------------------------
\* Optional values

None == {}

Some(x) == {x}

TheOne(option) == CHOOSE x \in option : TRUE

\* ------------------------------------------------------------------------
\* Strings

Str(s) == <<s>>

RECURSIVE Repeat(_, _)
Repeat(s, n) ==
  IF n = 0 THEN ""
  ELSE IF n % 2 = 0 THEN LET h == Repeat(s, n \div 2) IN h \o h
  ELSE s \o Repeat(s, n - 1)

RECURSIVE JoinFrom(_, _)
JoinFrom(parts, i) ==
  IF i > Len(parts) THEN ""
  ELSE IF i = Len(parts) THEN parts[i]
  ELSE parts[i] \o ":" \o JoinFrom(parts, i + 1)

SNS_API_VERSION == "2010-03-31"

\* ------------------------------------------------------------------------
\* Record<string, string>

Key(name) == <<name>>

KeysOf(params) == [i \in 1..Len(params) |-> params[i].k]

KeySet(params) == {params[i].k : i \in 1..Len(params)}

Has(params, key) == \E i \in 1..Len(params) : params[i].k = key

\* params[key]; the empty option stands for undefined
Get(params, key) == {params[i].v : i \in {j \in 1..Len(params) : params[j].k = key}}

\* result[key] = value: an existing key keeps its position, a new key is appended
Put(params, key, value) ==
  IF Has(params, key)
  THEN [i \in 1..Len(params) |->
          IF params[i].k = key THEN [k |-> key, v |-> value] ELSE params[i]]
  ELSE Append(params, [k |-> key, v |-> value])

\* delete result[key]
Delete(params, key) ==
  LET keep(e) == e.k # key IN SelectSeq(params, keep)

RECURSIVE DeleteAll(_, _)
DeleteAll(params, keys) ==
  IF keys = <<>> THEN params
  ELSE DeleteAll(Delete(params, Head(keys)), Tail(keys))

\* Object.keys(params).filter(pred) as a set of positions, and .find(pred)
Matching(params, Pred(_)) == {i \in 1..Len(params) : Pred(params[i].k)}

FilterKeys(params, Pred(_)) == SelectSeq(KeysOf(params), Pred)

Min(S) == CHOOSE x \in S : \A y \in S : x <= y

\* the option holding the first key that satisfies Pred
FindKey(params, Pred(_)) ==
  LET m == Matching(params, Pred)
  IN  IF m = {} THEN {} ELSE {params[Min(m)].k}

\* ------------------------------------------------------------------------
\* ARNs

ArnParseError == [error |-> "ArnParseError"]

parseArn(arn) ==
  IF arn = <<"">> THEN ArnParseError
  ELSE IF Len(arn) < 6 THEN ArnParseError
  ELSE IF arn[1] # "arn" THEN ArnParseError
  ELSE IF arn[2] = "" THEN ArnParseError
  ELSE IF arn[3] = "" THEN ArnParseError
  ELSE [partition |-> arn[2], service |-> arn[3], region |-> arn[4],
        accountId |-> arn[5], resource |-> JoinFrom(arn, 6)]

parseSnsTopicArn(arn) ==
  LET parsed == parseArn(arn)
  IN  IF parsed = ArnParseError THEN ArnParseError
      ELSE IF parsed.service # "sns" THEN ArnParseError
      ELSE IF parsed.region = "" THEN ArnParseError
      ELSE IF parsed.accountId = "" THEN ArnParseError
      ELSE IF parsed.resource = "" THEN ArnParseError
      ELSE parsed

\* the region, when parseSnsTopicArn does not throw
getRegionFromArn(arn) == parseSnsTopicArn(arn).region

getEndpointForRegion(region) == "https://sns." \o region \o ".amazonaws.com"

\* the account of the allowed topic is left out
generateNonexistentTopicArn_noAccount(allowedTopicArn, guid) ==
  LET parsed == parseArn(allowedTopicArn)
  IN  <<"arn", parsed.partition, "sns", parsed.region, "", "nonexistent-" \o guid>>

generateNonexistentTopicArn(allowedTopicArn, guid) ==
  LET parsed == parseArn(allowedTopicArn)
  IN  <<"arn", parsed.partition, "sns", parsed.region, parsed.accountId,
        "nonexistent-" \o guid>>

\* ------------------------------------------------------------------------
\* Action catalog

GetTopicAttributes ==
  [name |-> "GetTopicAttributes", category |-> "read", safe |-> TRUE, parameterName |-> "TopicArn"]

GetDataProtectionPolicy ==
  [name |-> "GetDataProtectionPolicy", category |-> "read", safe |-> TRUE, parameterName |-> "ResourceArn"]

ListSubscriptionsByTopic ==
  [name |-> "ListSubscriptionsByTopic", category |-> "read", safe |-> TRUE, parameterName |-> "TopicArn"]

ListTagsForResource ==
  [name |-> "ListTagsForResource", category |-> "read", safe |-> TRUE, parameterName |-> "ResourceArn"]

Publish ==
  [name |-> "Publish", category |-> "write", safe |-> TRUE, parameterName |-> "TopicArn"]

PublishBatch ==
  [name |-> "PublishBatch", category |-> "write", safe |-> TRUE, parameterName |-> "TopicArn"]

Subscribe ==
  [name |-> "Subscribe", category |-> "write", safe |-> TRUE, parameterName |-> "TopicArn"]

TagResource ==
  [name |-> "TagResource", category |-> "write", safe |-> TRUE, parameterName |-> "ResourceArn"]

UntagResource ==
  [name |-> "UntagResource", category |-> "write", safe |-> TRUE, parameterName |-> "ResourceArn"]

AddPermission ==
  [name |-> "AddPermission", category |-> "write", safe |-> TRUE, parameterName |-> "TopicArn"]

RemovePermission ==
  [name |-> "RemovePermission", category |-> "write", safe |-> FALSE, parameterName |-> "TopicArn"]

SetTopicAttributes ==
  [name |-> "SetTopicAttributes", category |-> "write", safe |-> FALSE, parameterName |-> "TopicArn"]

PutDataProtectionPolicy ==
  [name |-> "PutDataProtectionPolicy", category |-> "write", safe |-> FALSE, parameterName |-> "ResourceArn"]

DeleteTopic ==
  [name |-> "DeleteTopic", category |-> "write", safe |-> FALSE, parameterName |-> "TopicArn"]

\* the list with the destructive action moved to the front
ALL_ACTIONS_deleteFirst ==
  <<DeleteTopic, GetTopicAttributes, GetDataProtectionPolicy, ListSubscriptionsByTopic,
    ListTagsForResource, Publish, PublishBatch, Subscribe, TagResource, UntagResource,
    AddPermission, RemovePermission, SetTopicAttributes, PutDataProtectionPolicy>>

ALL_ACTIONS ==
  << GetTopicAttributes, GetDataProtectionPolicy, ListSubscriptionsByTopic, ListTagsForResource,
     Publish, PublishBatch, Subscribe, TagResource, UntagResource, AddPermission,
     RemovePermission,
     SetTopicAttributes, PutDataProtectionPolicy,
     DeleteTopic >>

getReadActions ==
  LET isRead(action) == action.category = "read" IN SelectSeq(ALL_ACTIONS, isRead)

\* the list without the filter on the safe flag
getSafeActions_unfiltered == ALL_ACTIONS

getSafeActions ==
  LET isSafe(action) == action.safe IN SelectSeq(ALL_ACTIONS, isSafe)

getAllActions == ALL_ACTIONS

getActionsByMode(mode) ==
  CASE mode = "read" -> getReadActions
    [] mode = "safe" -> getSafeActions
    [] mode = "all"  -> getAllActions

\* JSON.stringify of the test policy of PutDataProtectionPolicy, never split
TestPolicyJson ==
  "{\"Name\":\"sns-buster-test-policy\",\"Description\":\"Test policy from sns-buster\",\"Version\":\"2021-06-01\",\"Statement\":[...]}"

Entry(name, value) == [k |-> name, v |-> value]

\* Action.buildParams of the base class
baseBuildParams(action, topicArn) ==
  << Entry(Key("Action"), Str(action.name)),
     Entry(Key(action.parameterName), topicArn),
     Entry(Key("Version"), Str(SNS_API_VERSION)) >>

\* buildParams with the overrides of the subclasses
buildParams(action, topicArn) ==
  CASE action.name = "Publish" ->
         << Entry(Key("Action"), Str(action.name)),
            Entry(Key("TopicArn"), topicArn),
            Entry(Key("Message"), Str("sns-buster test message")),
            Entry(Key("Version"), Str(SNS_API_VERSION)) >>
    [] action.name = "PublishBatch" ->
         << Entry(Key("Action"), Str(action.name)),
            Entry(Key("TopicArn"), topicArn),
            Entry(<<"PublishBatchRequestEntries", "member", "1", "Id">>, Str("msg1")),
            Entry(<<"PublishBatchRequestEntries", "member", "1", "Message">>,
                  Str("sns-buster batch test message")),
            Entry(Key("Version"), Str(SNS_API_VERSION)) >>
    [] action.name = "Subscribe" ->
         << Entry(Key("Action"), Str(action.name)),
            Entry(Key("TopicArn"), topicArn),
            Entry(Key("Protocol"), Str("https")),
            Entry(Key("Endpoint"), <<"https", "//example.com/sns-buster-test">>),
            Entry(Key("Version"), Str(SNS_API_VERSION)) >>
    [] action.name = "TagResource" ->
         << Entry(Key("Action"), Str(action.name)),
            Entry(Key("ResourceArn"), topicArn),
            Entry(<<"Tags", "member", "1", "Key">>, Str("sns-buster-test")),
            Entry(<<"Tags", "member", "1", "Value">>, Str("true")),
            Entry(Key("Version"), Str(SNS_API_VERSION)) >>
    [] action.name = "UntagResource" ->
         << Entry(Key("Action"), Str(action.name)),
            Entry(Key("ResourceArn"), topicArn),
            Entry(<<"TagKeys", "member", "1">>, Str("sns-buster-test")),
            Entry(Key("Version"), Str(SNS_API_VERSION)) >>
    [] action.name = "AddPermission" ->
         << Entry(Key("Action"), Str(action.name)),
            Entry(Key("TopicArn"), topicArn),
            Entry(Key("Label"), Str("sns-buster-test-noop")),
            Entry(<<"AWSAccountId", "member", "1">>, Str(parseArn(topicArn).accountId)),
            Entry(<<"ActionName", "member", "1">>, Str("GetTopicAttributes")),
            Entry(Key("Version"), Str(SNS_API_VERSION)) >>
    [] action.name = "RemovePermission" ->
         << Entry(Key("Action"), Str(action.name)),
            Entry(Key("TopicArn"), topicArn),
            Entry(Key("Label"), Str("sns-buster-test-noop")),
            Entry(Key("Version"), Str(SNS_API_VERSION)) >>
    [] action.name = "SetTopicAttributes" ->
         << Entry(Key("Action"), Str(action.name)),
            Entry(Key("TopicArn"), topicArn),
            Entry(Key("AttributeName"), Str("SignatureVersion")),
            Entry(Key("AttributeValue"), Str("1")),
            Entry(Key("Version"), Str(SNS_API_VERSION)) >>
    [] action.name = "PutDataProtectionPolicy" ->
         << Entry(Key("Action"), Str(action.name)),
            Entry(Key("ResourceArn"), topicArn),
            Entry(Key("DataProtectionPolicy"), Str(TestPolicyJson)),
            Entry(Key("Version"), Str(SNS_API_VERSION)) >>
    [] OTHER -> baseBuildParams(action, topicArn)

\* ------------------------------------------------------------------------
\* Mutation catalog

\* \d+ on one field of a parameter name
IsDigits(field) == field \in {ToString(n) : n \in 0..MaxIndex}

\* /PublishBatchRequestEntries\.member\.\d+\.Message/
IsBatchMessageKey(key) ==
  /\ Len(key) >= 4
  /\ key[1] = "PublishBatchRequestEntries" /\ key[2] = "member"
  /\ IsDigits(key[3]) /\ key[4] = "Message"

\* /PublishBatchRequestEntries\.member\.\d+\.Id$/
IsBatchIdKey(key) ==
  /\ Len(key) = 4
  /\ key[1] = "PublishBatchRequestEntries" /\ key[2] = "member"
  /\ IsDigits(key[3]) /\ key[4] = "Id"

\* startsWith('ActionName.member.')
IsActionNameKey(key) == Len(key) >= 3 /\ key[1] = "ActionName" /\ key[2] = "member"

\* /Tags\.member\.\d+\.Key/
IsTagKeyKey(key) ==
  Len(key) >= 4 /\ key[1] = "Tags" /\ key[2] = "member" /\ IsDigits(key[3]) /\ key[4] = "Key"

\* /Tags\.member\.\d+\.Value/
IsTagValueKey(key) ==
  Len(key) >= 4 /\ key[1] = "Tags" /\ key[2] = "member" /\ IsDigits(key[3]) /\ key[4] = "Value"

\* /Tags\.member\.\d+\./
IsTagIndexedKey(key) ==
  Len(key) >= 4 /\ key[1] = "Tags" /\ key[2] = "member" /\ IsDigits(key[3])

\* startsWith('Tags.member.')
IsTagsKey(key) == Len(key) >= 3 /\ key[1] = "Tags" /\ key[2] = "member"

\* startsWith('TagKeys.member.')
IsTagKeysKey(key) == Len(key) >= 3 /\ key[1] = "TagKeys" /\ key[2] = "member"

\* /TagKeys\.member\.\d+/
IsTagKeysIndexedKey(key) ==
  Len(key) >= 3 /\ key[1] = "TagKeys" /\ key[2] = "member" /\ IsDigits(key[3])

\* k.replace(/Tags\.member\.\d+\./, 'Tags.member.0.') and its TagKeys twin
ZeroIndex(key) == [key EXCEPT ![3] = "0"]

\* tagParams.forEach(k => { result[newKey] = result[k]; delete result[k]; })
RECURSIVE MoveToZeroIndex(_, _)
MoveToZeroIndex(result, keys) ==
  IF keys = <<>> THEN result
  ELSE LET k == Head(keys)
           moved == IF Has(result, k)
                    THEN Put(result, ZeroIndex(k), CHOOSE v \in Get(result, k) : TRUE)
                    ELSE result
       IN  MoveToZeroIndex(Delete(moved, k), Tail(keys))

\* params.X === undefined
Undefined(params, name) == ~Has(params, Key(name))

\* !params.X
Falsy(params, name) == Get(params, Key(name)) \subseteq {<<"">>}

\* { ...params, [key]: value }
With(params, key, value) == Put(params, key, value)

\* the first key that satisfies Pred updated to value, or params when none does
WithFirst(params, Pred(_), value) ==
  LET found == FindKey(params, Pred)
  IN  IF found = {} THEN params ELSE With(params, CHOOSE k \in found : TRUE, value)

\* every key that satisfies Pred deleted, or params when none does
WithoutAll(params, Pred(_)) ==
  LET keys == FilterKeys(params, Pred)
  IN  IF Len(keys) = 0 THEN params ELSE DeleteAll(params, keys)

LONG_STRING_200 == Repeat("x", 200)

LONG_STRING_500 == Repeat("x", 500)

LONG_STRING_1000 == Repeat("x", 1000)

NonexistentKeyGuid == "nonexistent-key-a1b2c3d4-e5f6-7890-abcd-ef1234567890"

removeAction(params, topicArn) == Delete(params, Key("Action"))

removeVersion(params, topicArn) == Delete(params, Key("Version"))

endpointToArn_overwritesArn(params, topicArn) ==
  IF Falsy(params, "Endpoint") THEN params
  ELSE With(params, Key("TopicArn"), TheOne(Get(params, Key("Endpoint"))))

endpointToArn(params, topicArn) ==
  IF Falsy(params, "Endpoint") THEN params ELSE With(params, Key("Endpoint"), topicArn)

removeMessage(params, topicArn) ==
  IF Undefined(params, "Message") THEN params ELSE Delete(params, Key("Message"))

emptyMessage_unconditional(params, topicArn) == With(params, Key("Message"), Str(""))

emptyMessage(params, topicArn) ==
  IF Undefined(params, "Message") THEN params ELSE With(params, Key("Message"), Str(""))

removeBatchMessage(params, topicArn) ==
  LET msgKey == FindKey(params, IsBatchMessageKey)
  IN  IF msgKey = {} THEN params ELSE Delete(params, CHOOSE k \in msgKey : TRUE)

emptyBatchMessage(params, topicArn) == WithFirst(params, IsBatchMessageKey, Str(""))

removeBatchId(params, topicArn) ==
  LET idKey == FindKey(params, IsBatchIdKey)
  IN  IF idKey = {} THEN params ELSE Delete(params, CHOOSE k \in idKey : TRUE)

emptyBatchId(params, topicArn) == WithFirst(params, IsBatchIdKey, Str(""))

invalidActionName(params, topicArn) == WithFirst(params, IsActionNameKey, Str("NotARealAction"))

removeActionName(params, topicArn) == WithoutAll(params, IsActionNameKey)

invalidLabel(params, topicArn) ==
  IF Undefined(params, "Label") THEN params
  ELSE With(params, Key("Label"), Str("non-existent-permission-label-12345"))

emptyLabel(params, topicArn) ==
  IF Undefined(params, "Label") THEN params ELSE With(params, Key("Label"), Str(""))

removeLabel(params, topicArn) ==
  IF Undefined(params, "Label") THEN params ELSE Delete(params, Key("Label"))

specialCharLabel(params, topicArn) ==
  IF Undefined(params, "Label") THEN params
  ELSE With(params, Key("Label"), Str("../../../etc/passwd"))

invalidAttributeName(params, topicArn) ==
  IF Undefined(params, "AttributeName") THEN params
  ELSE With(params, Key("AttributeName"), Str("NotARealAttribute"))

removeAttributeName(params, topicArn) ==
  IF Undefined(params, "AttributeName") THEN params ELSE Delete(params, Key("AttributeName"))

emptyTagKey(params, topicArn) == WithFirst(params, IsTagKeyKey, Str(""))

removeTagKey(params, topicArn) == WithoutAll(params, IsTagKeyKey)

nonExistentTag(params, topicArn) == WithFirst(params, IsTagKeyKey, Str(NonexistentKeyGuid))

removeTags(params, topicArn) == WithoutAll(params, IsTagsKey)

zeroIndexTag(params, topicArn) ==
  LET tagParams == FilterKeys(params, IsTagIndexedKey)
  IN  IF Len(tagParams) = 0 THEN params ELSE MoveToZeroIndex(params, tagParams)

removeTagValue(params, topicArn) == WithoutAll(params, IsTagValueKey)

removeTagKeys(params, topicArn) == WithoutAll(params, IsTagKeysKey)

emptyTagKeys(params, topicArn) == WithFirst(params, IsTagKeysKey, Str(""))

nonExistentTagKey(params, topicArn) == WithFirst(params, IsTagKeysKey, Str(NonexistentKeyGuid))

longTagKeys(params, topicArn) == WithFirst(params, IsTagKeysKey, Str(Repeat("x", 200)))

zeroIndexTagKey(params, topicArn) ==
  LET tagKeysParams == FilterKeys(params, IsTagKeysIndexedKey)
  IN  IF Len(tagKeysParams) = 0 THEN params ELSE MoveToZeroIndex(params, tagKeysParams)

invalidProtocol(params, topicArn) ==
  IF Undefined(params, "Protocol") THEN params
  ELSE With(params, Key("Protocol"), Str("not-a-protocol"))

removeProtocol(params, topicArn) ==
  IF Undefined(params, "Protocol") THEN params ELSE Delete(params, Key("Protocol"))

invalidJsonPolicy(params, topicArn) ==
  IF Undefined(params, "DataProtectionPolicy") THEN params
  ELSE With(params, Key("DataProtectionPolicy"), Str("{not valid json"))

emptyJsonPolicy(params, topicArn) ==
  IF Undefined(params, "DataProtectionPolicy") THEN params
  ELSE With(params, Key("DataProtectionPolicy"), Str("{}"))

invalidPolicyStructure(params, topicArn) ==
  IF Undefined(params, "DataProtectionPolicy") THEN params
  ELSE With(params, Key("DataProtectionPolicy"), Str("{\"invalid\":\"structure\",\"foo\":\"bar\"}"))

removeDataProtectionPolicy(params, topicArn) ==
  IF Undefined(params, "DataProtectionPolicy") THEN params
  ELSE Delete(params, Key("DataProtectionPolicy"))

longTagKey(params, topicArn) == WithFirst(params, IsTagKeyKey, Str(LONG_STRING_200))

longTagValue(params, topicArn) == WithFirst(params, IsTagValueKey, Str(LONG_STRING_500))

longLabel(params, topicArn) ==
  IF Undefined(params, "Label") THEN params ELSE With(params, Key("Label"), Str(LONG_STRING_200))

longAttributeValue(params, topicArn) ==
  IF Undefined(params, "AttributeValue") THEN params
  ELSE With(params, Key("AttributeValue"), Str(LONG_STRING_1000))

invalidSignatureVersion(params, topicArn) ==
  IF Get(params, Key("AttributeName")) # {Str("SignatureVersion")} THEN params
  ELSE With(params, Key("AttributeValue"), Str("99"))

longEndpoint(params, topicArn) ==
  IF Undefined(params, "Endpoint") THEN params
  ELSE With(params, Key("Endpoint"), <<"https", "//example.com/" \o Repeat("x", 2000)>>)

longSubject(params, topicArn) ==
  IF Get(params, Key("Action")) # {Str("Publish")} THEN params
  ELSE With(params, Key("Subject"), Str(LONG_STRING_200))

defaultMutations == << "remove-action", "remove-version" >>

parameterMutations ==
  << "remove-message", "empty-message",
     "remove-batch-message", "empty-batch-message", "remove-batch-id", "empty-batch-id",
     "endpoint-to-arn", "long-endpoint",
     "invalid-protocol", "remove-protocol",
     "invalid-action-name", "remove-action-name",
     "invalid-label", "empty-label", "remove-label", "special-char-label", "long-label",
     "invalid-attribute-name", "remove-attribute-name", "long-attribute-value",
     "invalid-signature-version",
     "nonexistent-tag", "remove-tags", "empty-tag-key", "long-tag-key", "zero-index-tag",
     "remove-tag-key", "remove-tag-value", "long-tag-value",
     "nonexistent-tag-key", "remove-tag-keys", "empty-tag-keys", "long-tag-keys",
     "zero-index-tag-key",
     "long-subject",
     "invalid-json-policy", "empty-json-policy", "invalid-policy-structure",
     "remove-data-protection-policy" >>

getMutationsForAction(actionName) == defaultMutations \o parameterMutations

\* mutation.apply of the catalog entry called name
Apply(name, params, topicArn) ==
  CASE name = "remove-action" -> removeAction(params, topicArn)
    [] name = "remove-version" -> removeVersion(params, topicArn)
    [] name = "endpoint-to-arn" -> endpointToArn(params, topicArn)
    [] name = "remove-message" -> removeMessage(params, topicArn)
    [] name = "empty-message" -> emptyMessage(params, topicArn)
    [] name = "remove-batch-message" -> removeBatchMessage(params, topicArn)
    [] name = "empty-batch-message" -> emptyBatchMessage(params, topicArn)
    [] name = "remove-batch-id" -> removeBatchId(params, topicArn)
    [] name = "empty-batch-id" -> emptyBatchId(params, topicArn)
    [] name = "invalid-action-name" -> invalidActionName(params, topicArn)
    [] name = "remove-action-name" -> removeActionName(params, topicArn)
    [] name = "invalid-label" -> invalidLabel(params, topicArn)
    [] name = "empty-label" -> emptyLabel(params, topicArn)
    [] name = "remove-label" -> removeLabel(params, topicArn)
    [] name = "special-char-label" -> specialCharLabel(params, topicArn)
    [] name = "invalid-attribute-name" -> invalidAttributeName(params, topicArn)
    [] name = "remove-attribute-name" -> removeAttributeName(params, topicArn)
    [] name = "empty-tag-key" -> emptyTagKey(params, topicArn)
    [] name = "remove-tag-key" -> removeTagKey(params, topicArn)
    [] name = "nonexistent-tag" -> nonExistentTag(params, topicArn)
    [] name = "remove-tags" -> removeTags(params, topicArn)
    [] name = "zero-index-tag" -> zeroIndexTag(params, topicArn)
    [] name = "remove-tag-value" -> removeTagValue(params, topicArn)
    [] name = "remove-tag-keys" -> removeTagKeys(params, topicArn)
    [] name = "empty-tag-keys" -> emptyTagKeys(params, topicArn)
    [] name = "nonexistent-tag-key" -> nonExistentTagKey(params, topicArn)
    [] name = "long-tag-keys" -> longTagKeys(params, topicArn)
    [] name = "zero-index-tag-key" -> zeroIndexTagKey(params, topicArn)
    [] name = "invalid-protocol" -> invalidProtocol(params, topicArn)
    [] name = "remove-protocol" -> removeProtocol(params, topicArn)
    [] name = "invalid-json-policy" -> invalidJsonPolicy(params, topicArn)
    [] name = "empty-json-policy" -> emptyJsonPolicy(params, topicArn)
    [] name = "invalid-policy-structure" -> invalidPolicyStructure(params, topicArn)
    [] name = "remove-data-protection-policy" -> removeDataProtectionPolicy(params, topicArn)
    [] name = "long-tag-key" -> longTagKey(params, topicArn)
    [] name = "long-tag-value" -> longTagValue(params, topicArn)
    [] name = "long-label" -> longLabel(params, topicArn)
    [] name = "long-attribute-value" -> longAttributeValue(params, topicArn)
    [] name = "invalid-signature-version" -> invalidSignatureVersion(params, topicArn)
    [] name = "long-endpoint" -> longEndpoint(params, topicArn)
    [] name = "long-subject" -> longSubject(params, topicArn)

\* ------------------------------------------------------------------------
\* Mutation-change detector

\* the fields of the parameter names of the catalog, in code-unit order
FieldNames ==
  << "AWSAccountId", "Action", "ActionName", "AttributeName", "AttributeValue",
     "DataProtectionPolicy", "Endpoint", "Id", "Key", "Label", "Message", "Protocol",
     "PublishBatchRequestEntries", "ResourceArn", "Subject", "TagKeys", "Tags", "TopicArn",
     "Value", "Version", "member" >>

\* position of a field in code-unit order; digits sort before letters
FieldRank(field) ==
  IF IsDigits(field) THEN CHOOSE n \in 0..MaxIndex : ToString(n) = field
  ELSE MaxIndex + (CHOOSE i \in 1..Len(FieldNames) : FieldNames[i] = field)

\* a < b for two parameter names, as Array.prototype.sort compares strings
RECURSIVE KeyLess(_, _)
KeyLess(a, b) ==
  IF a = <<>> THEN b # <<>>
  ELSE IF b = <<>> THEN FALSE
  ELSE IF Head(a) = Head(b) THEN KeyLess(Tail(a), Tail(b))
  ELSE FieldRank(Head(a)) < FieldRank(Head(b))

RECURSIVE InsertSorted(_, _)
InsertSorted(key, sorted) ==
  IF sorted = <<>> THEN <<key>>
  ELSE IF KeyLess(Head(sorted), key) THEN <<Head(sorted)>> \o InsertSorted(key, Tail(sorted))
  ELSE <<key>> \o sorted

\* Object.keys(params).sort()
RECURSIVE SortKeys(_)
SortKeys(keys) ==
  IF keys = <<>> THEN <<>> ELSE InsertSorted(Head(keys), SortKeys(Tail(keys)))

\* keys.join(','): the names one after the other with a separator field
RECURSIVE JoinComma(_)
JoinComma(keys) ==
  IF keys = <<>> THEN <<>>
  ELSE IF Len(keys) = 1 THEN Head(keys)
  ELSE Head(keys) \o <<",">> \o JoinComma(Tail(keys))

\* the keys compared in insertion order, without the sort
didMutationChangeParams_unsorted(original, mutated) ==
  LET origKeys == KeysOf(original)
      mutKeys  == KeysOf(mutated)
  IN  IF Len(origKeys) # Len(mutKeys) THEN TRUE
      ELSE IF JoinComma(origKeys) # JoinComma(mutKeys) THEN TRUE
      ELSE \E i \in 1..Len(origKeys) :
             Get(original, origKeys[i]) # Get(mutated, origKeys[i])

didMutationChangeParams_keysOnly(original, mutated) ==
  LET origKeys == SortKeys(KeysOf(original))
      mutKeys  == SortKeys(KeysOf(mutated))
  IN  IF Len(origKeys) # Len(mutKeys) THEN TRUE
      ELSE JoinComma(origKeys) # JoinComma(mutKeys)

didMutationChangeParams(original, mutated) ==
  LET origKeys == SortKeys(KeysOf(original))
      mutKeys  == SortKeys(KeysOf(mutated))
  IN  IF Len(origKeys) # Len(mutKeys) THEN TRUE
      ELSE IF JoinComma(origKeys) # JoinComma(mutKeys) THEN TRUE
      ELSE \E i \in 1..Len(origKeys) :
             Get(original, origKeys[i]) # Get(mutated, origKeys[i])

\* ------------------------------------------------------------------------
\* Usefulness classifier

\* JavaScript truthiness of an optional string
Truthy(option) == option # {} /\ option # {""}

\* a || b on optional strings
OrElse(a, b) == IF Truthy(a) THEN a ELSE b

\* `${x}` for an optional string
Interpolate(option) == IF option = {} THEN "undefined" ELSE TheOne(option)

SAFE_PROBE_MUTATIONS == { "UntagResource:nonexistent-tag-key", "RemovePermission:invalid-label" }

\* result.errorDetails?.code || result.error
ErrorCode(result) ==
  OrElse(IF result.errorDetails = {} THEN {} ELSE TheOne(result.errorDetails).code,
         result.error)

\* the condition of the no-op probe rule
IsNoOpProbe_anyStatus(mutation, mutationName, actionName) ==
  /\ Truthy(mutationName)
  /\ Truthy(actionName)
  /\ (TheOne(actionName) \o ":" \o TheOne(mutationName)) \in SAFE_PROBE_MUTATIONS
  /\ mutation.denied.status = 403

IsNoOpProbe(mutation, mutationName, actionName) ==
  /\ Truthy(mutationName)
  /\ Truthy(actionName)
  /\ (TheOne(actionName) \o ":" \o TheOne(mutationName)) \in SAFE_PROBE_MUTATIONS
  /\ mutation.allowed.status = 200
  /\ mutation.denied.status = 403

\* deniedCode === allowedCode
IsSameFailure_byStatus(allowed, denied) == denied.status = allowed.status

IsSameFailure_requiresCode(allowed, denied) ==
  Truthy(ErrorCode(allowed)) /\ ErrorCode(denied) = ErrorCode(allowed)

IsSameFailure(allowed, denied) == ErrorCode(denied) = ErrorCode(allowed)

IsReproducedByNonexistent_requiresCode(allowed, nonexistent) ==
  /\ Truthy(ErrorCode(allowed))
  /\ ErrorCode(nonexistent) = ErrorCode(allowed) /\ nonexistent.status = allowed.status

\* the nonexistent target reproduces the error of the allowed target
IsReproducedByNonexistent(allowed, nonexistent) ==
  ErrorCode(nonexistent) = ErrorCode(allowed) /\ nonexistent.status = allowed.status

\* the condition of the safe probe rule
IsSafeProbe_from200(allowed, nonexistent) ==
  /\ (nonexistent.status = 403 \/ nonexistent.status = 404)
  /\ allowed.status >= 200 /\ allowed.status < 500 /\ allowed.status # 403

IsSafeProbe_only403(allowed, nonexistent) ==
  /\ nonexistent.status = 403
  /\ allowed.status >= 400 /\ allowed.status < 500 /\ allowed.status # 403

IsSafeProbe(allowed, nonexistent) ==
  /\ (nonexistent.status = 403 \/ nonexistent.status = 404)
  /\ allowed.status >= 400 /\ allowed.status < 500 /\ allowed.status # 403

\* The reason is kept as the fragments of its template literal.
isUsefulMutation(mutation, mutationName, actionName) ==
  LET allowed == mutation.allowed
      denied == mutation.denied
      nonexistent == mutation.nonexistent
      allowedCode == ErrorCode(allowed)
      deniedCode == ErrorCode(denied)
      nonexistentCode == ErrorCode(nonexistent)
  IN  IF IsNoOpProbe(mutation, mutationName, actionName)
      THEN [useful |-> TRUE, reason |-> <<"No-op probe: 200 success with no side effects">>]
      ELSE IF allowed.status = 403
      THEN [useful |-> FALSE, reason |-> <<"Allowed topic returned 403 (auth failed)">>]
      ELSE IF denied.status # 403
      THEN IF IsSameFailure(allowed, denied)
           THEN [useful |-> FALSE,
                 reason |-> <<"Pre-auth validation: all topics return \"",
                              Interpolate(allowedCode), "\" (auth not checked)">>]
           ELSE [useful |-> FALSE,
                 reason |-> <<"Denied topic returned ", ToString(denied.status), " ",
                              Interpolate(deniedCode), ", expected 403">>]
      ELSE IF IsReproducedByNonexistent(allowed, nonexistent)
      THEN [useful |-> FALSE,
            reason |-> <<"Pre-auth validation: nonexistent also returns \"",
                         Interpolate(allowedCode), "\"">>]
      ELSE IF IsSafeProbe(allowed, nonexistent)
      THEN [useful |-> TRUE,
            reason |-> <<"Safe probe: auth passed then \"", Interpolate(allowedCode),
                         "\" (denied=403, nonexistent=", ToString(nonexistent.status), ")">>]
      ELSE IF allowed.status = 200
      THEN [useful |-> FALSE,
            reason |-> <<"Allowed returned 200 but mutation not in safe probe list">>]
      ELSE [useful |-> FALSE,
            reason |-> <<"Inconclusive: allowed=", ToString(allowed.status),
                         " denied=", ToString(denied.status),
                         " nonexistent=", ToString(nonexistent.status)>>]

isSuccessStatus(status) == status >= 200 /\ status < 300

\* topicResult(status, code) of the classifier's unit tests
topicResult(status, code) ==
  [status |-> status,
   error |-> code,
   errorDetails |-> IF Truthy(code) THEN Some([code |-> code]) ELSE None]

\* ------------------------------------------------------------------------
\* Inputs

AllowedTopicArn == <<"arn", "aws", "sns", "us-east-1", "123456789012", "allowed-topic">>

DeniedTopicArn == <<"arn", "aws", "sns", "us-east-1", "210987654321", "denied-topic">>

DeniedTopicArnAbroad == <<"arn", "aws", "sns", "eu-west-1", "210987654321", "denied-topic">>

\* values of randomUUID()
Guids == {"6f1c2d3e-0000-4000-8000-000000000001"}

NonexistentTopicArns == {generateNonexistentTopicArn(AllowedTopicArn, guid) : guid \in Guids}

TargetArns == {AllowedTopicArn, DeniedTopicArnAbroad} \cup NonexistentTopicArns

Range(seq) == {seq[i] : i \in 1..Len(seq)}

MutationNames == Range(getMutationsForAction("any"))

\* the entries of params at the positions of keep, in order
RECURSIVE Pick(_, _, _)
Pick(params, keep, i) ==
  IF i > Len(params) THEN <<>>
  ELSE (IF i \in keep THEN <<params[i]>> ELSE <<>>) \o Pick(params, keep, i + 1)

\* params with the member index of every indexed name set to n
Reindexed(params, n) ==
  [i \in 1..Len(params) |->
     IF Len(params[i].k) >= 3 /\ params[i].k[2] = "member"
     THEN [params[i] EXCEPT !.k[3] = ToString(n)]
     ELSE params[i]]

\* parameter maps: every baseline of the catalog, with any of its parameters
\* left out and with its member indices renumbered
ParamMaps(action, topicArn) ==
  LET base == buildParams(action, topicArn)
  IN  {Reindexed(Pick(base, keep, 1), n) : keep \in SUBSET (1..Len(base)), n \in 0..MaxIndex}

VARIABLES
  applyIn, applyOut,          \* a parameter map and the result of one mutation.apply
  classifyIn, classifyOut,    \* a response triple and the verdict of isUsefulMutation
  options,                    \* CliOptions
  env,                        \* credentials in the environment, randomUUID, the SNS service
  pc,                         \* position of the run: start, verify, send, await, done, failed
  error,                      \* the message of the Error that ended the run
  ctx,                        \* MutationTestContext
  actions, actionIdx,         \* the actions of the mode and the one under test
  baselineParams,             \* baseline parameters of the action for the three targets
  mutIdx, mutatedParams,      \* mutation under test (0: baseline) and its parameters
  leg,                        \* triple member of the current request
  responses,                  \* RequestResults of the current triple
  baseline,                   \* baseline TopicResults of the action
  mutationResults, usefulMutations,
  actionResults, totalMutationsTested, usefulMutationsFound,
  result,                     \* the RequestMutationsResult written to summary.json
  inflight,                   \* requests sent and not yet answered
  trace,                      \* requests and responses of the action under test
  wire,                       \* signatures computed and requests handed to fetch, same scope
  sentTo,                     \* (action, topic ARN) pairs a request of the run was sent for
  uuidCalls,                  \* calls of randomUUID
  topicIdx,                   \* session-errors mode: the topic under test
  stsResults,                 \* what verifyCredentials and assumeRoleWithPolicy returned
  created,                    \* tag keys and permission labels the requests sent asked to create
  httpLogs                    \* the .http files written to the output directory, and for which request

pureVars == <<applyIn, applyOut, classifyIn, classifyOut>>

runVars ==
  <<options, env, pc, error, ctx, actions, actionIdx, baselineParams, mutIdx, mutatedParams,
    leg, responses, baseline, mutationResults, usefulMutations, actionResults,
    totalMutationsTested, usefulMutationsFound, result, inflight, trace, wire, sentTo,
    uuidCalls, topicIdx, stsResults, created, httpLogs>>

vars == <<pureVars, runVars>>

NoInput == [none |-> TRUE]

PureIdle ==
  /\ applyIn = NoInput /\ applyOut = None
  /\ classifyIn = NoInput /\ classifyOut = None

\* no run in progress
RunIdle ==
  /\ options = NoInput /\ env = NoInput /\ pc = "idle" /\ error = None /\ ctx = NoInput
  /\ actions = <<>> /\ actionIdx = 0 /\ baselineParams = NoInput
  /\ mutIdx = 0 /\ mutatedParams = NoInput /\ leg = 0 /\ responses = <<>>
  /\ baseline = NoInput /\ mutationResults = <<>> /\ usefulMutations = <<>>
  /\ actionResults = <<>> /\ totalMutationsTested = 0 /\ usefulMutationsFound = 0
  /\ result = None /\ inflight = {} /\ trace = <<>>
  /\ wire = <<>> /\ sentTo = {} /\ uuidCalls = 0 /\ topicIdx = 0 /\ stsResults = <<>>
  /\ created = {} /\ httpLogs = {}

\* ------------------------------------------------------------------------
\* Mutations applied one at a time to a parameter map

InitApply ==
  /\ \E action \in Range(ALL_ACTIONS), topicArn \in TargetArns :
       \E params \in ParamMaps(action, topicArn) :
         applyIn = [action |-> action, topicArn |-> topicArn, params |-> params]
  /\ applyOut = None
  /\ classifyIn = NoInput /\ classifyOut = None
  /\ RunIdle

ApplyMutation ==
  /\ applyOut = None
  /\ \E name \in MutationNames :
       applyOut' = Some([name |-> name,
                         params |-> Apply(name, applyIn.params, applyIn.topicArn)])
  /\ UNCHANGED <<applyIn, classifyIn, classifyOut, runVars>>

NextApply == ApplyMutation

SpecApply == InitApply /\ [][NextApply]_vars

\* ------------------------------------------------------------------------
\* The classifier applied to one response triple

Statuses == {200, 204, 400, 403, 404, 500}

Codes == {None, Some("AuthorizationError"), Some("InvalidParameter")}

TopicResults == {topicResult(status, code) : status \in Statuses, code \in Codes}

\* (actionName, mutationName) as passed by a caller; both are optional
NamePairs ==
  { [action |-> Some("UntagResource"), mutation |-> Some("nonexistent-tag-key")],
    [action |-> Some("RemovePermission"), mutation |-> Some("invalid-label")],
    [action |-> Some("UntagResource"), mutation |-> Some("invalid-label")],
    [action |-> Some("nonexistent-tag-key"), mutation |-> Some("UntagResource")],
    [action |-> Some("Publish"), mutation |-> Some("empty-message")],
    [action |-> None, mutation |-> Some("nonexistent-tag-key")],
    [action |-> None, mutation |-> None] }

InitClassify ==
  /\ \E allowed \in TopicResults, denied \in TopicResults, nonexistent \in TopicResults :
       \E names \in NamePairs :
         classifyIn = [mutation |-> [allowed |-> allowed, denied |-> denied,
                                     nonexistent |-> nonexistent],
                       mutationName |-> names.mutation,
                       actionName |-> names.action]
  /\ classifyOut = None
  /\ applyIn = NoInput /\ applyOut = None
  /\ RunIdle

Classify ==
  /\ classifyOut = None
  /\ classifyOut' = Some(isUsefulMutation(classifyIn.mutation, classifyIn.mutationName,
                                          classifyIn.actionName))
  /\ UNCHANGED <<applyIn, applyOut, classifyIn, runVars>>

NextClassify == Classify

SpecClassify == InitClassify /\ [][NextClassify]_vars

\* ------------------------------------------------------------------------
\* HTTP: requests, signing, the SNS service

DEFAULT_USER_AGENT == "sns-buster"

buildUnsignedRequest(endpoint, params, userAgent) ==
  [method |-> "POST", url |-> endpoint, userAgent |-> userAgent, body |-> params,
   signature |-> None]

\* the SigV4 signature is kept as the scope it was computed for
signRequest(request, signingOptions) ==
  [request EXCEPT !.signature = Some([service |-> signingOptions.service,
                                      region |-> signingOptions.region,
                                      accessKeyId |-> signingOptions.credentials.accessKeyId])]

\* the request that sendSignedRequest hands to sendRequest
sendSignedRequest(endpoint, params, region, credentials) ==
  LET unsigned == buildUnsignedRequest(endpoint, params, DEFAULT_USER_AGENT)
  IN  signRequest(unsigned, [service |-> "sns", region |-> region, credentials |-> credentials])

STS_API_VERSION == "2011-06-15"

\* the request that verifyCredentials hands to sendRequest
verifyCredentialsRequest(credentials, region) ==
  signRequest(
    buildUnsignedRequest("https://sts." \o region \o ".amazonaws.com",
                         <<Entry(Key("Action"), Str("GetCallerIdentity")),
                           Entry(Key("Version"), Str(STS_API_VERSION))>>,
                         DEFAULT_USER_AGENT),
    [service |-> "sts", region |-> region, credentials |-> credentials])

\* a response body is kept as the content of its <Code> element, if any
parseErrorDetails(responseBody) == [code |-> responseBody.code]

buildTopicResult(response) ==
  LET status == response.response.status
      isSuccess == isSuccessStatus(status)
      errorDetails == IF isSuccess THEN None ELSE Some(parseErrorDetails(response.response.body))
  IN  [status |-> status,
       error |-> IF errorDetails = None THEN None ELSE TheOne(errorDetails).code,
       errorDetails |-> errorDetails]

Outcome(status, code) == [status |-> status, body |-> [code |-> code]]

\* what the service answers to a mutated request, per target
ServerBehaviours ==
  LET invalid == Outcome(400, Some("InvalidParameter"))
      forbidden == Outcome(403, Some("AuthorizationError"))
      notFound == Outcome(404, Some("NotFound"))
  IN  { [allowed |-> invalid, denied |-> forbidden, nonexistent |-> notFound],
        [allowed |-> invalid, denied |-> forbidden, nonexistent |-> invalid],
        [allowed |-> invalid, denied |-> invalid, nonexistent |-> invalid],
        [allowed |-> Outcome(200, None), denied |-> forbidden, nonexistent |-> notFound],
        [allowed |-> forbidden, denied |-> forbidden, nonexistent |-> notFound],
        [allowed |-> Outcome(500, None), denied |-> forbidden, nonexistent |-> forbidden] }

\* what the service answers to an unmutated request, per target
BaselineBehaviour ==
  [allowed |-> Outcome(200, None),
   denied |-> Outcome(403, Some("AuthorizationError")),
   nonexistent |-> Outcome(404, Some("NotFound"))]

\* ------------------------------------------------------------------------
\* Request-mutations run

Targets == <<"allowed", "denied", "nonexistent">>

TargetOfLeg_nonexistentFirst(n) == <<"allowed", "nonexistent", "denied">>[n]

TargetOfLeg(n) == Targets[n]

Credentials == [accessKeyId |-> "AKIAEXAMPLE", secretAccessKey |-> "secret"]

Modes == {"read", "safe", "all"}

\* topic ARNs and --region as given on the command line
TopicOptions ==
  { [topicArn |-> AllowedTopicArn, compare |-> DeniedTopicArn, region |-> None],
    [topicArn |-> AllowedTopicArn, compare |-> DeniedTopicArnAbroad,
     region |-> Some("ap-southeast-2")],
    [topicArn |-> <<"allowed-topic">>, compare |-> DeniedTopicArn, region |-> None],
    [topicArn |-> <<"allowed-topic">>, compare |-> DeniedTopicArn,
     region |-> Some("ap-southeast-2")],
    [topicArn |-> AllowedTopicArn,
     compare |-> <<"arn", "aws", "sqs", "us-east-1", "210987654321", "a-queue">>,
     region |-> None] }

RoleArn == <<"arn", "aws", "iam", "", "123456789012", "role/sns-buster-probe">>

\* [role-arn] [topic-arns...] of --session-errors
SessionErrorsArgs ==
  { [roleArn |-> role, topics |-> topics] :
      role \in {RoleArn, <<"sns-buster-probe">>},
      topics \in { <<AllowedTopicArn>>,
                   <<AllowedTopicArn, DeniedTopicArnAbroad>>,
                   <<AllowedTopicArn, AllowedTopicArn>>,
                   <<DeniedTopicArn, DeniedTopicArnAbroad>>,
                   <<AllowedTopicArn, <<"denied-topic">> >>,
                   <<<<"arn", "aws", "sqs", "us-east-1", "210987654321", "a-queue">>>> } }

\* the CliOptions that parseOptions returns
CliOptions(topicArn, compare, region, mode, requestMutations, roleArn, topics) ==
  [topicArn |-> topicArn, compare |-> compare, region |-> region, mode |-> mode,
   requestMutations |-> requestMutations,
   sessionErrorsRoleArn |-> roleArn, sessionErrorsTopics |-> topics]

\* the command lines of the four kinds of run
RunOptions ==
  LET regions == {None, Some("ap-southeast-2")}
      probe == { CliOptions(topicArn, None, region, mode, FALSE, None, None) :
                   topicArn \in {AllowedTopicArn, <<"allowed-topic">>,
                                 <<"arn", "aws", "sqs", "us-east-1", "210987654321", "a-queue">>},
                   region \in regions, mode \in Modes }
      compare == { CliOptions(topics.topicArn, Some(topics.compare), topics.region, mode,
                              FALSE, None, None) :
                     topics \in TopicOptions, mode \in Modes }
      requestMutations == { CliOptions(topics.topicArn, Some(topics.compare), topics.region,
                                       mode, TRUE, None, None) :
                              topics \in TopicOptions, mode \in Modes }
      sessionErrors == { CliOptions(<<"">>, None, None, mode, FALSE, Some(args.roleArn),
                                    Some(args.topics)) :
                           args \in SessionErrorsArgs, mode \in Modes }
  IN  probe \cup compare \cup requestMutations \cup sessionErrors

\* an optional string or ARN is given and not empty
Given(option) == option # None /\ option # Some(<<"">>)

\* the runner that main hands the options to
Dispatch(opts) ==
  IF Given(opts.sessionErrorsRoleArn) THEN "session-errors"
  ELSE IF opts.requestMutations THEN "request-mutations"
  ELSE IF Given(opts.compare) THEN "compare"
  ELSE "probe"

InitRun ==
  /\ options \in RunOptions
  /\ \E credentials \in {None, Some(Credentials)}, guid \in Guids :
       \E server \in IF Dispatch(options) = "request-mutations"
                     THEN ServerBehaviours ELSE {BaselineBehaviour} :
         env = [credentials |-> credentials, guid |-> guid, server |-> server]
  /\ pc = "start" /\ error = None /\ ctx = NoInput
  /\ actions = <<>> /\ actionIdx = 0 /\ baselineParams = NoInput
  /\ mutIdx = 0 /\ mutatedParams = NoInput /\ leg = 0 /\ responses = <<>>
  /\ baseline = NoInput /\ mutationResults = <<>> /\ usefulMutations = <<>>
  /\ actionResults = <<>> /\ totalMutationsTested = 0 /\ usefulMutationsFound = 0
  /\ result = None /\ inflight = {} /\ trace = <<>>
  /\ wire = <<>> /\ sentTo = {} /\ uuidCalls = 0 /\ topicIdx = 0 /\ stsResults = <<>>
  /\ created = {} /\ httpLogs = {}
  /\ PureIdle

\* the run ends with a thrown Error
Throw(message) ==
  /\ pc' = "failed"
  /\ error' = Some(message)

\* the three parameter maps that action.buildParams returns for the triple
BaselineParamsOf(action, context) ==
  [allowed |-> buildParams(action, context.allowedTopicArn),
   denied |-> buildParams(action, context.deniedTopicArn),
   nonexistent |-> buildParams(action, context.nonexistentTopicArn)]

\* the mutated parameters of the allowed topic sent to all three targets
MutatedParamsOf_allowedBaseline(name, params, context) ==
  LET mutated == Apply(name, params.allowed, context.allowedTopicArn)
  IN  [allowed |-> mutated, denied |-> mutated, nonexistent |-> mutated]

\* mutation.apply on the three baselines, each with its own topic ARN
MutatedParamsOf(name, params, context) ==
  [allowed |-> Apply(name, params.allowed, context.allowedTopicArn),
   denied |-> Apply(name, params.denied, context.deniedTopicArn),
   nonexistent |-> Apply(name, params.nonexistent, context.nonexistentTopicArn)]

\* the caller's three baselines written through by mutation.apply
InputsAfterApply_inPlace(name, params, context) == MutatedParamsOf(name, params, context)

\* the caller's three baselines after mutation.apply: every catalog entry returns params
\* itself or works on the copy { ...params }, so the objects passed in are as before
InputsAfterApply(name, params, context) == params

\* the loop over the mutations: the next one after from that is not skipped,
\* or 0 when the loop ends
NextMutation(action, params, context, from) ==
  LET mutations == getMutationsForAction(action.name)
      tested == { j \in (from + 1)..Len(mutations) :
                    didMutationChangeParams(
                      params.allowed,
                      Apply(mutations[j], params.allowed, context.allowedTopicArn)) }
  IN  IF tested = {} THEN 0 ELSE Min(tested)

\* a signature computation and a call of fetch, as entries of wire
Signing(event) == [ev |-> "sign", request |-> event, signed |-> TRUE]

Transmitting(event, signed) == [ev |-> "transmit", request |-> event, signed |-> signed]

\* a request handed to fetch with a signature computed earlier
Transmission_presigned(event, signed) == <<Transmitting(event, signed)>>

\* what one request adds to wire: a signed request is signed, then handed to fetch
Transmission(event, signed) ==
  IF signed THEN <<Signing(event), Transmitting(event, TRUE)>>
  ELSE <<Transmitting(event, FALSE)>>

\* the VerifyResult or AssumeRoleResult of a call to STS, kept as its success flag
StsResult(call, success) == [call |-> call, success |-> success]

\* the run goes on whatever verifyCredentials returned
VerificationFailed_ignored(success) == FALSE

\* !verifyResult.success || !verifyResult.identity
VerificationFailed(success) == ~success

\* a request to STS
StsEvent(name) == [ev |-> "send", action |-> name, phase |-> "sts", target |-> "sts"]

\* the topic ARN of a member of the triple
TopicArnOf(context, target) ==
  CASE target = "allowed" -> context.allowedTopicArn
    [] target = "denied" -> context.deniedTopicArn
    [] target = "nonexistent" -> context.nonexistentTopicArn

\* action.buildParams throws: AddPermission parses the topic ARN
BuildParamsThrows(action, topicArn) ==
  action.name = "AddPermission" /\ parseArn(topicArn) = ArnParseError

\* what a request asks the service to create on a topic: the tag keys of a TagResource
\* request, the Label of an AddPermission request
CreatedBy(params, topicArn) ==
  LET valuesAt(keys) == UNION {Get(params, key) : key \in keys}
  IN  IF Get(params, Key("Action")) = {Str("TagResource")}
      THEN {[topicArn |-> topicArn, kind |-> "tag", value |-> value] :
              value \in valuesAt({key \in KeySet(params) : IsTagKeyKey(key)})}
      ELSE IF Get(params, Key("Action")) = {Str("AddPermission")}
      THEN {[topicArn |-> topicArn, kind |-> "label", value |-> value] :
              value \in Get(params, Key("Label"))}
      ELSE {}

\* what a request asks the service to remove from a topic: the tag keys of an
\* UntagResource request, the Label of a RemovePermission request
RemovedBy(params, topicArn) ==
  LET valuesAt(keys) == UNION {Get(params, key) : key \in keys}
  IN  IF Get(params, Key("Action")) = {Str("UntagResource")}
      THEN {[topicArn |-> topicArn, kind |-> "tag", value |-> value] :
              value \in valuesAt({key \in KeySet(params) : IsTagKeysKey(key)})}
      ELSE IF Get(params, Key("Action")) = {Str("RemovePermission")}
      THEN {[topicArn |-> topicArn, kind |-> "label", value |-> value] :
              value \in Get(params, Key("Label"))}
      ELSE {}

\* the file that writeHttpLog writes in the output directory of the run
writeHttpLog(actionName, signed) ==
  actionName \o "-" \o (IF signed THEN "signed" ELSE "unsigned") \o ".http"

\* the file that writeMutationsHttpLog writes in the output directory of the run
writeMutationsHttpLog(actionName, target) == actionName \o "-" \o target \o ".http"

\* topicArn.split(':').pop() || 'topic'
TopicNameOf(topicArn) ==
  IF topicArn[Len(topicArn)] = "" THEN "topic" ELSE topicArn[Len(topicArn)]

\* a file written, with the request whose exchange it holds
HttpLog(path, actionName, mutation, topicArn, signed) ==
  [path |-> path,
   request |-> [action |-> actionName, mutation |-> mutation, topicArn |-> topicArn,
                signed |-> signed]]

\* runRequestMutations up to the call of verifyCredentials
StartRequestMutations ==
  /\ pc = "start"
  /\ Dispatch(options) = "request-mutations"
  /\ uuidCalls' = IF parseArn(options.topicArn) = ArnParseError THEN uuidCalls
                  ELSE uuidCalls + 1
  /\ LET allowedTopicArn == options.topicArn
         deniedTopicArn == TheOne(options.compare)
         allowedRegion == IF options.region # None THEN TheOne(options.region)
                          ELSE getRegionFromArn(allowedTopicArn)
         deniedRegion == getRegionFromArn(deniedTopicArn)
     IN  IF \/ parseArn(allowedTopicArn) = ArnParseError
            \/ (options.region = None /\ parseSnsTopicArn(allowedTopicArn) = ArnParseError)
            \/ parseSnsTopicArn(deniedTopicArn) = ArnParseError
         THEN /\ Throw("ArnParseError")
              /\ UNCHANGED <<ctx, inflight, wire>>
         ELSE IF env.credentials = None
         THEN /\ Throw("Request mutations mode requires AWS credentials")
              /\ UNCHANGED <<ctx, inflight, wire>>
         ELSE /\ ctx' = [allowedTopicArn |-> allowedTopicArn,
                         deniedTopicArn |-> deniedTopicArn,
                         nonexistentTopicArn |->
                           generateNonexistentTopicArn(allowedTopicArn, env.guid),
                         allowedRegion |-> allowedRegion,
                         deniedRegion |-> deniedRegion,
                         nonexistentRegion |-> allowedRegion,
                         allowedEndpoint |-> getEndpointForRegion(allowedRegion),
                         deniedEndpoint |-> getEndpointForRegion(deniedRegion),
                         nonexistentEndpoint |-> getEndpointForRegion(allowedRegion),
                         credentials |-> TheOne(env.credentials)]
              /\ inflight' = inflight \cup
                   {verifyCredentialsRequest(TheOne(env.credentials), allowedRegion)}
              /\ wire' = Transmission(StsEvent("GetCallerIdentity"), TRUE)
              /\ pc' = "verify"
              /\ UNCHANGED error
  /\ UNCHANGED <<options, env, actions, actionIdx, baselineParams, mutIdx, mutatedParams, leg,
                 responses, baseline, mutationResults, usefulMutations, actionResults,
                 totalMutationsTested, usefulMutationsFound, result, trace, sentTo, topicIdx,
                 stsResults, created, httpLogs, pureVars>>

\* verifyCredentials returns; on success the loop over the actions starts
CredentialsVerified ==
  /\ pc = "verify"
  /\ Dispatch(options) = "request-mutations"
  /\ inflight' = {}
  /\ \E success \in BOOLEAN :
       /\ stsResults' = Append(stsResults, StsResult("GetCallerIdentity", success))
       /\ IF VerificationFailed(success)
          THEN /\ Throw("Credential verification failed")
               /\ UNCHANGED <<actions, actionIdx, baselineParams, leg>>
          ELSE /\ actions' = getActionsByMode(options.mode)
               /\ actionIdx' = 1
               /\ baselineParams' = BaselineParamsOf(getActionsByMode(options.mode)[1], ctx)
               /\ leg' = 1
               /\ pc' = "send"
               /\ UNCHANGED error
  /\ UNCHANGED <<options, env, ctx, mutIdx, mutatedParams, responses, baseline,
                 mutationResults, usefulMutations, actionResults, totalMutationsTested,
                 usefulMutationsFound, result, trace, wire, sentTo, uuidCalls, topicIdx,
                 created, httpLogs, pureVars>>

\* the phase of the request under way: baseline or the name of the mutation
Phase == IF mutIdx = 0 THEN "baseline" ELSE getMutationsForAction(actions[actionIdx].name)[mutIdx]

\* an entry of the trace: what happened to the request of the current leg
Event(ev) ==
  [ev |-> ev, action |-> actions[actionIdx].name, phase |-> Phase, target |-> TargetOfLeg(leg)]

\* the request of the current leg as sendSignedRequest builds it
CurrentRequest ==
  LET target == TargetOfLeg(leg)
      params == IF mutIdx = 0 THEN baselineParams[target] ELSE mutatedParams[target]
  IN  CASE target = "allowed" ->
             sendSignedRequest(ctx.allowedEndpoint, params, ctx.allowedRegion, ctx.credentials)
        [] target = "denied" ->
             sendSignedRequest(ctx.deniedEndpoint, params, ctx.deniedRegion, ctx.credentials)
        [] target = "nonexistent" ->
             sendSignedRequest(ctx.nonexistentEndpoint, params, ctx.nonexistentRegion,
                               ctx.credentials)

\* sendSignedRequest: the request is built, signed and handed to fetch
SendRequest ==
  /\ pc = "send"
  /\ Dispatch(options) = "request-mutations"
  /\ inflight' = inflight \cup {CurrentRequest}
  /\ trace' = (IF mutIdx = 0 /\ leg = 1 THEN <<>> ELSE trace)
                \o <<Event("send")>>
  /\ wire' = (IF mutIdx = 0 /\ leg = 1 THEN <<>> ELSE wire)
               \o Transmission(Event("send"), TRUE)
  /\ sentTo' = sentTo \cup {[action |-> actions[actionIdx].name,
                             topicArn |-> TopicArnOf(ctx, TargetOfLeg(leg))]}
  /\ created' = created \cup CreatedBy(CurrentRequest.body, TopicArnOf(ctx, TargetOfLeg(leg)))
  /\ pc' = "await"
  /\ UNCHANGED <<options, env, error, ctx, actions, actionIdx, baselineParams, mutIdx,
                 mutatedParams, leg, responses, baseline, mutationResults, usefulMutations,
                 actionResults, totalMutationsTested, usefulMutationsFound, result,
                 uuidCalls, topicIdx, stsResults, httpLogs, pureVars>>

\* the record of the action under test, once its loop over the mutations ended
\* every tested mutation reported as useful
ActionRecord_allUseful(action, baselineResult, results, useful) ==
  [action |-> action.name, baseline |-> baselineResult,
   mutations |-> results, usefulMutations |-> results]

ActionRecord(action, baselineResult, results, useful) ==
  [action |-> action.name, baseline |-> baselineResult,
   mutations |-> results, usefulMutations |-> useful]

\* testActionMutations returned: runRequestMutations pushes the record and either
\* starts the next action or writes the summary
FinishAction(baselineResult, results, useful) ==
  LET actionResult == ActionRecord(actions[actionIdx], baselineResult, results, useful)
  IN  /\ actionResults' = Append(actionResults, actionResult)
      /\ totalMutationsTested' = totalMutationsTested + Len(actionResult.mutations)
      /\ usefulMutationsFound' = usefulMutationsFound + Len(actionResult.usefulMutations)
      /\ mutationResults' = <<>>
      /\ usefulMutations' = <<>>
      /\ mutIdx' = 0
      /\ mutatedParams' = NoInput
      /\ IF actionIdx < Len(actions)
         THEN /\ actionIdx' = actionIdx + 1
              /\ baselineParams' = BaselineParamsOf(actions[actionIdx + 1], ctx)
              /\ leg' = 1
              /\ pc' = "send"
              /\ UNCHANGED result
         ELSE /\ result' = Some([allowedTopicArn |-> ctx.allowedTopicArn,
                                 deniedTopicArn |-> ctx.deniedTopicArn,
                                 nonexistentTopicArn |-> ctx.nonexistentTopicArn,
                                 mode |-> options.mode,
                                 actions |-> Append(actionResults, actionResult),
                                 summary |->
                                   [totalActions |-> Len(actions),
                                    totalMutationsTested |->
                                      totalMutationsTested + Len(actionResult.mutations),
                                    usefulMutationsFound |->
                                      usefulMutationsFound + Len(actionResult.usefulMutations)]])
              /\ pc' = "done"
              /\ UNCHANGED <<actionIdx, baselineParams, leg>>

\* the loop over the mutations goes on after the triple of mutation from (0: the
\* baseline): unchanged mutations are skipped, the next one is applied
ContinueMutations(from, baselineResult, results, useful) ==
  LET next == NextMutation(actions[actionIdx], baselineParams, ctx, from)
  IN  IF next = 0
      THEN FinishAction(baselineResult, results, useful)
      ELSE /\ mutIdx' = next
           /\ mutatedParams' =
                MutatedParamsOf(getMutationsForAction(actions[actionIdx].name)[next],
                                baselineParams, ctx)
           /\ mutationResults' = results
           /\ usefulMutations' = useful
           /\ leg' = 1
           /\ pc' = "send"
           /\ baselineParams' =
                InputsAfterApply(getMutationsForAction(actions[actionIdx].name)[next],
                                 baselineParams, ctx)
           /\ UNCHANGED <<actionIdx, actionResults, totalMutationsTested,
                          usefulMutationsFound, result>>

MutationResultOf_namesSwapped(name, actionName, topics) ==
  LET usefulResult == isUsefulMutation(topics, Some(actionName), Some(name))
  IN  [mutationName |-> name,
       allowed |-> topics.allowed, denied |-> topics.denied, nonexistent |-> topics.nonexistent,
       useful |-> usefulResult.useful, reason |-> usefulResult.reason]

\* the MutationTestResult of the mutation under test
MutationResultOf(name, actionName, topics) ==
  LET usefulResult == isUsefulMutation(topics, Some(name), Some(actionName))
  IN  [mutationName |-> name,
       allowed |-> topics.allowed, denied |-> topics.denied, nonexistent |-> topics.nonexistent,
       useful |-> usefulResult.useful, reason |-> usefulResult.reason]

\* the answer of the service to the request in flight
Respond(request) ==
  LET behaviour == IF mutIdx = 0 THEN BaselineBehaviour ELSE env.server
  IN  [request |-> request, response |-> behaviour[TargetOfLeg(leg)]]

\* sendRequest resolves and the code after the await runs up to the next request
\* testActionMutations writes the three logs of a baseline or of a mutation once the third
\* response is in
MutationsLogs ==
  IF leg < 3 THEN {}
  ELSE { HttpLog(writeMutationsHttpLog(actions[actionIdx].name \o "-" \o Phase, target),
                 actions[actionIdx].name, Phase, TopicArnOf(ctx, target), TRUE) :
           target \in Range(Targets) }

ReceiveResponse ==
  /\ pc = "await"
  /\ Dispatch(options) = "request-mutations"
  /\ \E request \in inflight :
       LET received == Append(responses, Respond(request))
           topics == [allowed |-> buildTopicResult(received[1]),
                      denied |-> buildTopicResult(received[2]),
                      nonexistent |-> buildTopicResult(received[3])]
       IN  /\ inflight' = inflight \ {request}
           /\ trace' = Append(trace, Event("recv"))
           /\ httpLogs' = httpLogs \cup MutationsLogs
           /\ IF leg < 3
              THEN /\ responses' = received
                   /\ leg' = leg + 1
                   /\ pc' = "send"
                   /\ UNCHANGED <<actionIdx, baselineParams, mutIdx, mutatedParams, baseline,
                                  mutationResults, usefulMutations, actionResults,
                                  totalMutationsTested, usefulMutationsFound, result>>
              ELSE /\ responses' = <<>>
                   /\ IF mutIdx = 0
                      THEN /\ baseline' = topics
                           /\ ContinueMutations(0, topics, <<>>, <<>>)
                      ELSE LET mutationResult ==
                                 MutationResultOf(Phase, actions[actionIdx].name, topics)
                           IN  /\ UNCHANGED baseline
                               /\ ContinueMutations(
                                    mutIdx, baseline,
                                    Append(mutationResults, mutationResult),
                                    IF mutationResult.useful
                                    THEN Append(usefulMutations, mutationResult)
                                    ELSE usefulMutations)
  /\ UNCHANGED <<options, env, error, ctx, actions, wire, sentTo, uuidCalls, topicIdx,
                 stsResults, created, pureVars>>

\* ------------------------------------------------------------------------
\* Probe run

\* the <Code> of an error response
parseErrorFromResponse(responseBody) == responseBody.code

\* what the service answers to a request without a signature
UnsignedOutcome == Outcome(403, Some("MissingAuthenticationToken"))

ProbeEvent(ev) ==
  [ev |-> ev, action |-> actions[actionIdx].name, phase |-> "probe",
   target |-> IF leg = 1 THEN "unsigned" ELSE "signed"]

\* run up to the call of verifyCredentials, or up to the first action without credentials
StartProbe ==
  /\ pc = "start"
  /\ Dispatch(options) = "probe"
  /\ IF options.region = None /\ parseSnsTopicArn(options.topicArn) = ArnParseError
     THEN /\ Throw("ArnParseError")
          /\ UNCHANGED <<ctx, actions, actionIdx, leg, inflight, wire>>
     ELSE LET region == IF options.region # None THEN TheOne(options.region)
                        ELSE getRegionFromArn(options.topicArn)
          IN  /\ ctx' = [topicArn |-> options.topicArn, region |-> region,
                         endpoint |-> getEndpointForRegion(region),
                         credentials |-> env.credentials,
                         hasCredentials |-> env.credentials # None]
              /\ IF env.credentials # None
                 THEN /\ inflight' = inflight \cup
                           {verifyCredentialsRequest(TheOne(env.credentials), region)}
                      /\ wire' = Transmission(StsEvent("GetCallerIdentity"), TRUE)
                      /\ pc' = "verify"
                      /\ UNCHANGED <<actions, actionIdx, leg>>
                 ELSE /\ actions' = getActionsByMode(options.mode)
                      /\ actionIdx' = 1
                      /\ leg' = 1
                      /\ pc' = "send"
                      /\ UNCHANGED <<inflight, wire>>
              /\ UNCHANGED error
  /\ UNCHANGED <<options, env, baselineParams, mutIdx, mutatedParams, responses, baseline,
                 mutationResults, usefulMutations, actionResults, totalMutationsTested,
                 usefulMutationsFound, result, trace, sentTo, uuidCalls, topicIdx, stsResults, created, httpLogs, pureVars>>

\* the credentials are kept whatever verifyCredentials returned
AfterVerification_keepsCredentials(context, success) == context

\* run after verifyCredentials: on failure it continues with unsigned requests only
AfterVerification(context, success) ==
  IF success THEN context
  ELSE [context EXCEPT !.credentials = None, !.hasCredentials = FALSE]

\* verifyCredentials returns; a failed verification drops the credentials
ProbeCredentialsVerified ==
  /\ pc = "verify"
  /\ Dispatch(options) = "probe"
  /\ inflight' = {}
  /\ \E success \in BOOLEAN :
       /\ stsResults' = Append(stsResults, StsResult("GetCallerIdentity", success))
       /\ ctx' = AfterVerification(ctx, success)
  /\ actions' = getActionsByMode(options.mode)
  /\ actionIdx' = 1
  /\ leg' = 1
  /\ pc' = "send"
  /\ UNCHANGED <<options, env, error, baselineParams, mutIdx, mutatedParams, responses,
                 baseline, mutationResults, usefulMutations, actionResults,
                 totalMutationsTested, usefulMutationsFound, result, trace, wire, sentTo,
                 uuidCalls, topicIdx, created, httpLogs, pureVars>>

\* executeAction: the unsigned request (leg 1), then the signed one (leg 2)
ProbeSend ==
  /\ pc = "send"
  /\ Dispatch(options) = "probe"
  /\ LET action == actions[actionIdx]
     IN  IF leg = 1 /\ BuildParamsThrows(action, ctx.topicArn)
         THEN /\ Throw("ArnParseError")
              /\ UNCHANGED <<inflight, trace, wire, sentTo, created>>
         ELSE LET params == buildParams(action, ctx.topicArn)
                  unsignedRequest ==
                    buildUnsignedRequest(ctx.endpoint, params, DEFAULT_USER_AGENT)
                  request ==
                    IF leg = 1 THEN unsignedRequest
                    ELSE signRequest(unsignedRequest,
                                     [service |-> "sns", region |-> ctx.region,
                                      credentials |-> TheOne(ctx.credentials)])
              IN  /\ inflight' = inflight \cup {request}
                  /\ trace' = (IF leg = 1 THEN <<>> ELSE trace) \o <<ProbeEvent("send")>>
                  /\ wire' = (IF leg = 1 THEN <<>> ELSE wire)
                               \o Transmission(ProbeEvent("send"), leg = 2)
                  /\ sentTo' = sentTo \cup
                       {[action |-> action.name, topicArn |-> ctx.topicArn]}
                  /\ created' = created \cup CreatedBy(params, ctx.topicArn)
                  /\ pc' = "await"
                  /\ UNCHANGED error
  /\ UNCHANGED <<options, env, ctx, actions, actionIdx, baselineParams, mutIdx, mutatedParams,
                 leg, responses, baseline, mutationResults, usefulMutations, actionResults,
                 totalMutationsTested, usefulMutationsFound, result, uuidCalls, topicIdx,
                 stsResults, httpLogs, pureVars>>

\* the entry that addActionResult stores for a response
ProbeResultOf(actionName, signed, response) ==
  LET success == isSuccessStatus(response.status)
  IN  [action |-> actionName, signed |-> signed, status |-> response.status,
       success |-> success,
       error |-> IF success THEN None ELSE parseErrorFromResponse(response.body)]

\* sendRequest resolves in executeAction; after the last action run writes the summary
\* executeAction writes the log of the unsigned request, then of the signed one
ProbeLogs ==
  { HttpLog(writeHttpLog(actions[actionIdx].name, leg = 2),
            actions[actionIdx].name, "none", ctx.topicArn, leg = 2) }

ProbeReceive ==
  /\ pc = "await"
  /\ Dispatch(options) = "probe"
  /\ \E request \in inflight :
       LET response == IF leg = 1 THEN UnsignedOutcome ELSE env.server.allowed
           results == Append(actionResults,
                             ProbeResultOf(actions[actionIdx].name, leg = 2, response))
       IN  /\ inflight' = inflight \ {request}
           /\ trace' = Append(trace, ProbeEvent("recv"))
           /\ httpLogs' = httpLogs \cup ProbeLogs
           /\ actionResults' = results
           /\ IF leg = 1 /\ ctx.credentials # None
              THEN /\ leg' = 2
                   /\ pc' = "send"
                   /\ UNCHANGED <<actionIdx, result>>
              ELSE IF actionIdx < Len(actions)
              THEN /\ actionIdx' = actionIdx + 1
                   /\ leg' = 1
                   /\ pc' = "send"
                   /\ UNCHANGED result
              ELSE /\ result' = Some([topicArn |-> ctx.topicArn, region |-> ctx.region,
                                      mode |-> options.mode,
                                      credentialsAvailable |-> ctx.hasCredentials,
                                      results |-> results])
                   /\ pc' = "done"
                   /\ UNCHANGED <<actionIdx, leg>>
  /\ UNCHANGED <<options, env, error, ctx, actions, baselineParams, mutIdx, mutatedParams,
                 responses, baseline, mutationResults, usefulMutations, totalMutationsTested,
                 usefulMutationsFound, wire, sentTo, uuidCalls, topicIdx, stsResults, created, pureVars>>

\* ------------------------------------------------------------------------
\* Compare run

CompareEvent(ev) ==
  [ev |-> ev, action |-> actions[actionIdx].name, phase |-> "compare",
   target |-> TargetOfLeg(leg)]

\* runMutations up to the call of verifyCredentials
StartCompare ==
  /\ pc = "start"
  /\ Dispatch(options) = "compare"
  /\ LET allowedTopicArn == options.topicArn
         deniedTopicArn == TheOne(options.compare)
         allowedRegion == IF options.region # None THEN TheOne(options.region)
                          ELSE getRegionFromArn(allowedTopicArn)
         deniedRegion == getRegionFromArn(deniedTopicArn)
     IN  IF \/ (options.region = None /\ parseSnsTopicArn(allowedTopicArn) = ArnParseError)
            \/ parseSnsTopicArn(deniedTopicArn) = ArnParseError
         THEN /\ Throw("ArnParseError")
              /\ UNCHANGED <<ctx, inflight, wire>>
         ELSE IF env.credentials = None
         THEN /\ Throw("Compare mode requires AWS credentials")
              /\ UNCHANGED <<ctx, inflight, wire>>
         ELSE /\ ctx' = [allowedTopicArn |-> allowedTopicArn,
                         deniedTopicArn |-> deniedTopicArn,
                         allowedRegion |-> allowedRegion,
                         deniedRegion |-> deniedRegion,
                         allowedEndpoint |-> getEndpointForRegion(allowedRegion),
                         deniedEndpoint |-> getEndpointForRegion(deniedRegion),
                         credentials |-> TheOne(env.credentials)]
              /\ inflight' = inflight \cup
                   {verifyCredentialsRequest(TheOne(env.credentials), allowedRegion)}
              /\ wire' = Transmission(StsEvent("GetCallerIdentity"), TRUE)
              /\ pc' = "verify"
              /\ UNCHANGED error
  /\ UNCHANGED <<options, env, actions, actionIdx, baselineParams, mutIdx, mutatedParams, leg,
                 responses, baseline, mutationResults, usefulMutations, actionResults,
                 totalMutationsTested, usefulMutationsFound, result, trace, sentTo, uuidCalls,
                 topicIdx, stsResults, created, httpLogs, pureVars>>

\* verifyCredentials returns; on success the loop over the actions starts
CompareCredentialsVerified ==
  /\ pc = "verify"
  /\ Dispatch(options) = "compare"
  /\ inflight' = {}
  /\ \E success \in BOOLEAN :
       /\ stsResults' = Append(stsResults, StsResult("GetCallerIdentity", success))
       /\ IF VerificationFailed(success)
          THEN /\ Throw("Credential verification failed")
               /\ UNCHANGED <<actions, actionIdx, leg>>
          ELSE /\ actions' = getActionsByMode(options.mode)
               /\ actionIdx' = 1
               /\ leg' = 1
               /\ pc' = "send"
               /\ UNCHANGED error
  /\ UNCHANGED <<options, env, ctx, baselineParams, mutIdx, mutatedParams, responses, baseline,
                 mutationResults, usefulMutations, actionResults, totalMutationsTested,
                 usefulMutationsFound, result, trace, wire, sentTo, uuidCalls, topicIdx,
                 created, httpLogs, pureVars>>

\* executeComparison: the request for the allowed topic (leg 1), then for the denied one
CompareSend ==
  /\ pc = "send"
  /\ Dispatch(options) = "compare"
  /\ LET action == actions[actionIdx]
         topicArn == IF leg = 1 THEN ctx.allowedTopicArn ELSE ctx.deniedTopicArn
         endpoint == IF leg = 1 THEN ctx.allowedEndpoint ELSE ctx.deniedEndpoint
         region == IF leg = 1 THEN ctx.allowedRegion ELSE ctx.deniedRegion
     IN  IF BuildParamsThrows(action, topicArn)
         THEN /\ Throw("ArnParseError")
              /\ UNCHANGED <<inflight, trace, wire, sentTo, created>>
         ELSE LET params == buildParams(action, topicArn)
                  unsigned == buildUnsignedRequest(endpoint, params, DEFAULT_USER_AGENT)
                  signed == signRequest(unsigned, [service |-> "sns", region |-> region,
                                                   credentials |-> ctx.credentials])
              IN  /\ inflight' = inflight \cup {signed}
                  /\ trace' = (IF leg = 1 THEN <<>> ELSE trace) \o <<CompareEvent("send")>>
                  /\ wire' = (IF leg = 1 THEN <<>> ELSE wire)
                               \o Transmission(CompareEvent("send"), TRUE)
                  /\ sentTo' = sentTo \cup {[action |-> action.name, topicArn |-> topicArn]}
                  /\ created' = created \cup CreatedBy(params, topicArn)
                  /\ pc' = "await"
                  /\ UNCHANGED error
  /\ UNCHANGED <<options, env, ctx, actions, actionIdx, baselineParams, mutIdx, mutatedParams,
                 leg, responses, baseline, mutationResults, usefulMutations, actionResults,
                 totalMutationsTested, usefulMutationsFound, result, uuidCalls, topicIdx,
                 stsResults, httpLogs, pureVars>>

\* the ActionResult of a response in executeComparison
CompareResultOf(response) ==
  [status |-> response.status, success |-> isSuccessStatus(response.status),
   error |-> IF isSuccessStatus(response.status) THEN None
             ELSE parseErrorFromResponse(response.body)]

compareResponses(allowed, denied) ==
  [match |-> allowed.status = denied.status,
   allowedStatus |-> allowed.status, deniedStatus |-> denied.status,
   allowedError |-> allowed.error, deniedError |-> denied.error]

createMutationsSummary(comparisons) ==
  LET matching == Len(SelectSeq(comparisons, LAMBDA c : c.match))
  IN  [total |-> Len(comparisons), matching |-> matching,
       different |-> Len(comparisons) - matching]

\* sendRequest resolves in executeComparison; after the last action runMutations
\* writes the summary
\* executeComparison writes the log of the allowed request, then of the denied one
CompareLogs ==
  { HttpLog(writeMutationsHttpLog(actions[actionIdx].name, TargetOfLeg(leg)),
            actions[actionIdx].name, "none", TopicArnOf(ctx, TargetOfLeg(leg)), TRUE) }

CompareReceive ==
  /\ pc = "await"
  /\ Dispatch(options) = "compare"
  /\ \E request \in inflight :
       LET received == Append(responses, env.server[TargetOfLeg(leg)])
       IN  /\ inflight' = inflight \ {request}
           /\ trace' = Append(trace, CompareEvent("recv"))
           /\ httpLogs' = httpLogs \cup CompareLogs
           /\ IF leg = 1
              THEN /\ responses' = received
                   /\ leg' = 2
                   /\ pc' = "send"
                   /\ UNCHANGED <<actionIdx, actionResults, result>>
              ELSE LET compared == compareResponses(CompareResultOf(received[1]),
                                                    CompareResultOf(received[2]))
                       comparison ==
                         [action |-> actions[actionIdx].name, match |-> compared.match,
                          allowedStatus |-> compared.allowedStatus,
                          deniedStatus |-> compared.deniedStatus,
                          allowedError |-> compared.allowedError,
                          deniedError |-> compared.deniedError]
                       comparisons == Append(actionResults, comparison)
                   IN  /\ responses' = <<>>
                       /\ actionResults' = comparisons
                       /\ IF actionIdx < Len(actions)
                          THEN /\ actionIdx' = actionIdx + 1
                               /\ leg' = 1
                               /\ pc' = "send"
                               /\ UNCHANGED result
                          ELSE /\ result' =
                                    Some([allowedTopicArn |-> ctx.allowedTopicArn,
                                          deniedTopicArn |-> ctx.deniedTopicArn,
                                          mode |-> options.mode,
                                          comparisons |-> comparisons,
                                          summary |-> createMutationsSummary(comparisons)])
                               /\ pc' = "done"
                               /\ UNCHANGED <<actionIdx, leg>>
  /\ UNCHANGED <<options, env, error, ctx, actions, baselineParams, mutIdx, mutatedParams,
                 baseline, mutationResults, usefulMutations, totalMutationsTested,
                 usefulMutationsFound, wire, sentTo, uuidCalls, topicIdx, stsResults, created, pureVars>>

\* ------------------------------------------------------------------------
\* Session-errors run

DENY_ALL_POLICY ==
  "{\"Version\":\"2012-10-17\",\"Statement\":[{\"Effect\":\"Deny\",\"Action\":\"*\",\"Resource\":\"*\"}]}"

\* the request that assumeRoleWithPolicy hands to sendRequest
assumeRoleRequest(credentials, region, roleOptions) ==
  signRequest(
    buildUnsignedRequest("https://sts." \o region \o ".amazonaws.com",
                         <<Entry(Key("Action"), Str("AssumeRole")),
                           Entry(Key("Version"), Str(STS_API_VERSION)),
                           Entry(Key("RoleArn"), roleOptions.roleArn),
                           Entry(Key("RoleSessionName"), Str(roleOptions.sessionName)),
                           Entry(Key("Policy"), Str(roleOptions.sessionPolicy))>>,
                         DEFAULT_USER_AGENT),
    [service |-> "sts", region |-> region, credentials |-> credentials])

\* the credentials of the assumed role
SessionCredentials ==
  [accessKeyId |-> "ASIAEXAMPLE", secretAccessKey |-> "session-secret",
   sessionToken |-> "session-token"]

SessionEvent(ev) ==
  [ev |-> ev, action |-> actions[actionIdx].name, phase |-> "session-errors",
   target |-> ToString(topicIdx)]

\* runSessionErrors up to the call of verifyCredentials
StartSessionErrors ==
  /\ pc = "start"
  /\ Dispatch(options) = "session-errors"
  /\ LET roleArn == TheOne(options.sessionErrorsRoleArn)
         roleArnParsed == parseArn(roleArn)
         stsRegion == IF roleArnParsed.region # "" THEN roleArnParsed.region ELSE "us-east-1"
     IN  IF options.sessionErrorsTopics = None
            \/ Len(TheOne(options.sessionErrorsTopics)) = 0
         THEN /\ Throw("Session errors mode requires --session-errors <role-arn> <topic-arn...>")
              /\ UNCHANGED <<ctx, inflight, wire>>
         ELSE IF env.credentials = None
         THEN /\ Throw("Safe mode requires AWS credentials")
              /\ UNCHANGED <<ctx, inflight, wire>>
         ELSE IF roleArnParsed = ArnParseError
         THEN /\ Throw("ArnParseError")
              /\ UNCHANGED <<ctx, inflight, wire>>
         ELSE /\ ctx' = [roleArn |-> roleArn, stsRegion |-> stsRegion,
                         baseCredentials |-> TheOne(env.credentials),
                         credentials |-> None, topicArn |-> None, region |-> None,
                         endpoint |-> None]
              /\ inflight' = inflight \cup
                   {verifyCredentialsRequest(TheOne(env.credentials), stsRegion)}
              /\ wire' = Transmission(StsEvent("GetCallerIdentity"), TRUE)
              /\ pc' = "verify"
              /\ UNCHANGED error
  /\ UNCHANGED <<options, env, actions, actionIdx, baselineParams, mutIdx, mutatedParams, leg,
                 responses, baseline, mutationResults, usefulMutations, actionResults,
                 totalMutationsTested, usefulMutationsFound, result, trace, sentTo, uuidCalls,
                 topicIdx, stsResults, created, httpLogs, pureVars>>

\* verifyCredentials returns; on success assumeRoleWithPolicy is called
SessionCredentialsVerified ==
  /\ pc = "verify"
  /\ Dispatch(options) = "session-errors"
  /\ \E success \in BOOLEAN :
       /\ stsResults' = Append(stsResults, StsResult("GetCallerIdentity", success))
       /\ IF VerificationFailed(success)
          THEN /\ Throw("Credential verification failed")
               /\ inflight' = {}
               /\ UNCHANGED wire
          ELSE /\ inflight' =
                    {assumeRoleRequest(ctx.baseCredentials, ctx.stsRegion,
                                       [roleArn |-> ctx.roleArn,
                                        sessionName |-> "sns-buster-safe-now",
                                        sessionPolicy |-> DENY_ALL_POLICY])}
               /\ wire' = wire \o Transmission(StsEvent("AssumeRole"), TRUE)
               /\ pc' = "assume"
               /\ UNCHANGED error
  /\ UNCHANGED <<options, env, ctx, actions, actionIdx, baselineParams, mutIdx, mutatedParams,
                 leg, responses, baseline, mutationResults, usefulMutations, actionResults,
                 totalMutationsTested, usefulMutationsFound, result, trace, sentTo, uuidCalls,
                 topicIdx, created, httpLogs, pureVars>>

\* testTopic up to its loop over the actions, for topic n of the run
BeginTopic(n) ==
  LET topicArn == TheOne(options.sessionErrorsTopics)[n]
  IN  IF parseSnsTopicArn(topicArn) = ArnParseError
      THEN /\ Throw("ArnParseError")
           /\ UNCHANGED <<ctx, topicIdx, actionIdx, leg>>
      ELSE /\ ctx' = [ctx EXCEPT !.credentials = Some(SessionCredentials),
                                 !.topicArn = Some(topicArn),
                                 !.region = Some(getRegionFromArn(topicArn)),
                                 !.endpoint =
                                   Some(getEndpointForRegion(getRegionFromArn(topicArn)))]
           /\ topicIdx' = n
           /\ actionIdx' = 1
           /\ leg' = 1
           /\ pc' = "send"
           /\ UNCHANGED error

\* assumeRoleWithPolicy returns; on success the loop over the topics starts
RoleAssumed ==
  /\ pc = "assume"
  /\ Dispatch(options) = "session-errors"
  /\ inflight' = {}
  /\ \E success \in BOOLEAN :
       /\ stsResults' = Append(stsResults, StsResult("AssumeRole", success))
       /\ IF ~success
          THEN /\ Throw("Failed to assume role")
               /\ UNCHANGED <<ctx, actions, topicIdx, actionIdx, leg>>
          ELSE /\ actions' = getActionsByMode(options.mode)
               /\ BeginTopic(1)
  /\ UNCHANGED <<options, env, baselineParams, mutIdx, mutatedParams, responses, baseline,
                 mutationResults, usefulMutations, actionResults, totalMutationsTested,
                 usefulMutationsFound, result, trace, wire, sentTo, uuidCalls, created, httpLogs, pureVars>>

\* testTopic: the request of the action under test is built, signed and sent
SessionSend ==
  /\ pc = "send"
  /\ Dispatch(options) = "session-errors"
  /\ LET action == actions[actionIdx]
         params == buildParams(action, TheOne(ctx.topicArn))
         unsigned == buildUnsignedRequest(TheOne(ctx.endpoint), params, DEFAULT_USER_AGENT)
         signed == signRequest(unsigned, [service |-> "sns", region |-> TheOne(ctx.region),
                                          credentials |-> TheOne(ctx.credentials)])
     IN  /\ inflight' = inflight \cup {signed}
         /\ trace' = <<SessionEvent("send")>>
         /\ wire' = Transmission(SessionEvent("send"), TRUE)
         /\ sentTo' = sentTo \cup {[action |-> action.name, topicArn |-> TheOne(ctx.topicArn)]}
         /\ created' = created \cup CreatedBy(params, TheOne(ctx.topicArn))
         /\ pc' = "await"
  /\ UNCHANGED <<options, env, error, ctx, actions, actionIdx, baselineParams, mutIdx,
                 mutatedParams, leg, responses, baseline, mutationResults, usefulMutations,
                 actionResults, totalMutationsTested, usefulMutationsFound, result, uuidCalls,
                 topicIdx, stsResults, httpLogs, pureVars>>

\* sendRequest resolves in testTopic; after the last action of the last topic
\* runSessionErrors writes the summary
\* testTopic writes the log of the request under the name of the topic
SessionLogs ==
  { HttpLog(writeMutationsHttpLog(actions[actionIdx].name, TopicNameOf(TheOne(ctx.topicArn))),
            actions[actionIdx].name, "none", TheOne(ctx.topicArn), TRUE) }

SessionReceive ==
  /\ pc = "await"
  /\ Dispatch(options) = "session-errors"
  /\ \E request \in inflight :
       LET response == env.server.denied
           results == Append(actionResults,
                             [topicArn |-> TheOne(ctx.topicArn),
                              action |-> actions[actionIdx].name,
                              status |-> response.status])
           topics == TheOne(options.sessionErrorsTopics)
       IN  /\ inflight' = inflight \ {request}
           /\ trace' = Append(trace, SessionEvent("recv"))
           /\ httpLogs' = httpLogs \cup SessionLogs
           /\ actionResults' = results
           /\ IF actionIdx < Len(actions)
              THEN /\ actionIdx' = actionIdx + 1
                   /\ pc' = "send"
                   /\ UNCHANGED <<ctx, topicIdx, leg, error, result>>
              ELSE IF topicIdx < Len(topics)
              THEN /\ BeginTopic(topicIdx + 1)
                   /\ UNCHANGED result
              ELSE /\ result' = Some([roleArn |-> ctx.roleArn, topicArns |-> topics,
                                      mode |-> options.mode, results |-> results,
                                      summary |->
                                        [totalTopics |-> Len(topics),
                                         totalActions |-> Len(actions) * Len(topics)]])
                   /\ pc' = "done"
                   /\ UNCHANGED <<ctx, topicIdx, actionIdx, leg, error>>
  /\ UNCHANGED <<options, env, actions, baselineParams, mutIdx, mutatedParams, responses,
                 baseline, mutationResults, usefulMutations, totalMutationsTested,
                 usefulMutationsFound, wire, sentTo, uuidCalls, stsResults, created, pureVars>>

\* the trace entry of the request under way, in the runner that sent it
RequestEvent(ev) ==
  CASE Dispatch(options) = "probe" -> ProbeEvent(ev)
    [] Dispatch(options) = "compare" -> CompareEvent(ev)
    [] Dispatch(options) = "session-errors" -> SessionEvent(ev)
    [] OTHER -> Event(ev)

\* fetch rejects: sendRequest throws, nothing catches it before main
TransportFailure ==
  /\ pc = "await"
  /\ \E request \in inflight :
       /\ inflight' = inflight \ {request}
       /\ trace' = Append(trace, RequestEvent("fail"))
  /\ Throw("fetch failed")
  /\ UNCHANGED <<options, env, ctx, actions, actionIdx, baselineParams, mutIdx, mutatedParams,
                 leg, responses, baseline, mutationResults, usefulMutations, actionResults,
                 totalMutationsTested, usefulMutationsFound, result, wire, sentTo, uuidCalls,
                 topicIdx, stsResults, created, httpLogs, pureVars>>

\* fetch never settles: sendRequest sets no timeout and passes no abort signal,
\* so the await does not return
ResponseNeverArrives ==
  /\ pc \in {"await", "verify", "assume"}
  /\ inflight # {}
  /\ pc' = "blocked"
  /\ UNCHANGED <<options, env, error, ctx, actions, actionIdx, baselineParams, mutIdx,
                 mutatedParams, leg, responses, baseline, mutationResults, usefulMutations,
                 actionResults, totalMutationsTested, usefulMutationsFound, result, inflight,
                 trace, wire, sentTo, uuidCalls, topicIdx, stsResults, created, httpLogs, pureVars>>

Init == InitRun

Next ==
  \/ StartRequestMutations
  \/ CredentialsVerified
  \/ SendRequest
  \/ ReceiveResponse
  \/ StartProbe
  \/ ProbeCredentialsVerified
  \/ ProbeSend
  \/ ProbeReceive
  \/ StartCompare
  \/ CompareCredentialsVerified
  \/ CompareSend
  \/ CompareReceive
  \/ StartSessionErrors
  \/ SessionCredentialsVerified
  \/ RoleAssumed
  \/ SessionSend
  \/ SessionReceive
  \/ TransportFailure
  \/ ResponseNeverArrives

Spec == Init /\ [][Next]_vars

\* the runs in read mode
InitLive == InitRun /\ options.mode = "read"

\* the continuation of sendSignedRequest runs: this is the set of ReceiveResponse steps
\* within Next, written by its effect on the position and the request in flight
ResponseHandled ==
  /\ pc = "await"
  /\ Dispatch(options) = "request-mutations"
  /\ inflight # {}
  /\ inflight' = {}
  /\ pc' \in {"send", "done"}

\* the event loop runs every continuation that is ready: synchronous code runs on, and a
\* response that has arrived is handled; nothing obliges the network to answer or to fail
Scheduling ==
  /\ WF_vars(StartRequestMutations) /\ WF_vars(CredentialsVerified) /\ WF_vars(SendRequest)
  /\ WF_<<pc, inflight>>(ResponseHandled)
  /\ WF_vars(StartProbe) /\ WF_vars(ProbeCredentialsVerified) /\ WF_vars(ProbeSend)
  /\ WF_vars(ProbeReceive)
  /\ WF_vars(StartCompare) /\ WF_vars(CompareCredentialsVerified) /\ WF_vars(CompareSend)
  /\ WF_vars(CompareReceive)
  /\ WF_vars(StartSessionErrors) /\ WF_vars(SessionCredentialsVerified)
  /\ WF_vars(RoleAssumed) /\ WF_vars(SessionSend) /\ WF_vars(SessionReceive)

\* a read-mode run with its scheduling
SpecLive == InitLive /\ [][Next]_vars /\ Scheduling

\* ------------------------------------------------------------------------
\* Properties of the mutation catalog

\* same keys, same values
StructurallyEqual(p, q) == Range(p) = Range(q)

IsBaselineInput == applyIn.params = buildParams(applyIn.action, applyIn.topicArn)

\* C1: whatever catalog mutation is applied to the baseline parameters of a
\* catalog action for a target, the resource-identifying parameter (TopicArn
\* or ResourceArn) is present in the result and equal to the baseline's.
C1_ArnPreserved ==
  \A out \in applyOut :
    IsBaselineInput =>
      /\ Get(out.params, Key(applyIn.action.parameterName)) = {applyIn.topicArn}
      /\ Get(out.params, Key(applyIn.action.parameterName))
           = Get(buildParams(applyIn.action, applyIn.topicArn), Key(applyIn.action.parameterName))

\* a mutation changed the baseline of TagResource for the nonexistent target
C1_Witness ==
  \E out \in applyOut :
    /\ IsBaselineInput
    /\ applyIn.action.name = "TagResource"
    /\ applyIn.topicArn \in NonexistentTopicArns
    /\ out.name = "zero-index-tag"
    /\ ~StructurallyEqual(out.params, applyIn.params)

\* the parameter a mutation is conditioned on is present in params
PreconditionPresent(name, params) ==
  LET has(field) == Has(params, Key(field))
      hasIndexed(first, last) ==
        \E key \in KeySet(params) :
          /\ Len(key) >= 3 /\ key[1] = first /\ key[2] = "member"
          /\ (last # "" => Len(key) >= 4 /\ key[4] = last)
  IN  CASE name = "remove-action" -> has("Action")
        [] name = "remove-version" -> has("Version")
        [] name \in {"remove-message", "empty-message"} -> has("Message")
        [] name \in {"remove-batch-message", "empty-batch-message"} ->
             hasIndexed("PublishBatchRequestEntries", "Message")
        [] name \in {"remove-batch-id", "empty-batch-id"} ->
             hasIndexed("PublishBatchRequestEntries", "Id")
        [] name \in {"endpoint-to-arn", "long-endpoint"} -> has("Endpoint")
        [] name \in {"invalid-protocol", "remove-protocol"} -> has("Protocol")
        [] name \in {"invalid-action-name", "remove-action-name"} -> hasIndexed("ActionName", "")
        [] name \in {"invalid-label", "empty-label", "remove-label", "special-char-label",
                     "long-label"} -> has("Label")
        [] name \in {"invalid-attribute-name", "remove-attribute-name"} -> has("AttributeName")
        [] name = "long-attribute-value" -> has("AttributeValue")
        [] name = "invalid-signature-version" ->
             Get(params, Key("AttributeName")) = {Str("SignatureVersion")}
        [] name \in {"nonexistent-tag", "empty-tag-key", "long-tag-key", "remove-tag-key"} ->
             hasIndexed("Tags", "Key")
        [] name \in {"remove-tag-value", "long-tag-value"} -> hasIndexed("Tags", "Value")
        [] name \in {"remove-tags", "zero-index-tag"} -> hasIndexed("Tags", "")
        [] name \in {"nonexistent-tag-key", "remove-tag-keys", "empty-tag-keys",
                     "long-tag-keys", "zero-index-tag-key"} -> hasIndexed("TagKeys", "")
        [] name = "long-subject" -> Get(params, Key("Action")) = {Str("Publish")}
        [] name \in {"invalid-json-policy", "empty-json-policy", "invalid-policy-structure",
                     "remove-data-protection-policy"} -> has("DataProtectionPolicy")

\* C3: a catalog mutation applied to a parameter map that lacks the parameter
\* the mutation is conditioned on returns a map with the same keys and the
\* same values as its input.
C3_IdentityWithoutPrecondition ==
  \A out \in applyOut :
    ~PreconditionPresent(out.name, applyIn.params) =>
      StructurallyEqual(out.params, applyIn.params)

\* empty-message was applied to a map without Message and returned it as it was
C3_Witness ==
  \E out \in applyOut :
    /\ out.name = "empty-message"
    /\ ~Has(applyIn.params, Key("Message"))
    /\ Len(applyIn.params) >= 2
    /\ out.params = applyIn.params

\* ------------------------------------------------------------------------
\* Properties of the classifier

\* the pair named by the caller is on the safe list
OnSafeList(actionName, mutationName) ==
  /\ actionName # None /\ mutationName # None
  /\ \E entry \in SAFE_PROBE_MUTATIONS :
       entry = TheOne(actionName) \o ":" \o TheOne(mutationName)

\* the rules of the decision list, first match wins; errorCode is the
\* extracted error code of an outcome
RuleVerdict(allowed, denied, nonexistent, onSafeList) ==
  LET rule1 == onSafeList /\ allowed.status = 200 /\ denied.status = 403
      rule2 == allowed.status = 403
      rule3 == denied.status # 403
      rule4 == nonexistent.status = allowed.status /\ nonexistent.error = allowed.error
      rule5 == /\ nonexistent.status \in {403, 404}
               /\ allowed.status \in 400..499
               /\ allowed.status # 403
      rule6 == allowed.status = 200 /\ ~onSafeList
  IN  CASE rule1 -> [useful |-> TRUE, category |-> "no-op probe"]
        [] ~rule1 /\ rule2 -> [useful |-> FALSE, category |-> "auth failed on allowed target"]
        [] ~rule1 /\ ~rule2 /\ rule3 ->
             IF denied.error = allowed.error
             THEN [useful |-> FALSE, category |-> "pre-auth validation: identical failure"]
             ELSE [useful |-> FALSE, category |-> "unexpected denied-target status"]
        [] ~rule1 /\ ~rule2 /\ ~rule3 /\ rule4 ->
             [useful |-> FALSE, category |-> "pre-auth validation: nonexistent reproduces"]
        [] ~rule1 /\ ~rule2 /\ ~rule3 /\ ~rule4 /\ rule5 ->
             [useful |-> TRUE, category |-> "safe probe"]
        [] ~rule1 /\ ~rule2 /\ ~rule3 /\ ~rule4 /\ ~rule5 /\ rule6 ->
             [useful |-> FALSE, category |-> "uncontrolled success"]
        [] OTHER -> [useful |-> FALSE, category |-> "inconclusive"]

\* the kind of a reason, read off the literal head of its template
ReasonCategory(reason) ==
  CASE reason[1] = "No-op probe: 200 success with no side effects" -> "no-op probe"
    [] reason[1] = "Allowed topic returned 403 (auth failed)" -> "auth failed on allowed target"
    [] reason[1] = "Pre-auth validation: all topics return \"" ->
         "pre-auth validation: identical failure"
    [] reason[1] = "Denied topic returned " -> "unexpected denied-target status"
    [] reason[1] = "Pre-auth validation: nonexistent also returns \"" ->
         "pre-auth validation: nonexistent reproduces"
    [] reason[1] = "Safe probe: auth passed then \"" -> "safe probe"
    [] reason[1] = "Allowed returned 200 but mutation not in safe probe list" ->
         "uncontrolled success"
    [] reason[1] = "Inconclusive: allowed=" -> "inconclusive"
    [] OTHER -> "other"

\* C2: the verdict of isUsefulMutation (useful flag and kind of reason) is the
\* verdict of rules 1 to 7 evaluated in order, first match wins.
C2_OrderedDecisionList ==
  \A out \in classifyOut :
    LET t == classifyIn.mutation
        expected == RuleVerdict(t.allowed, t.denied, t.nonexistent,
                                OnSafeList(classifyIn.actionName, classifyIn.mutationName))
    IN  /\ out.useful = expected.useful
        /\ ReasonCategory(out.reason) = expected.category

\* a triple matched by both the no-op rule and the pre-auth rule was decided by the first
C2_Witness ==
  \E out \in classifyOut :
    /\ OnSafeList(classifyIn.actionName, classifyIn.mutationName)
    /\ classifyIn.mutation.allowed.status = 200
    /\ classifyIn.mutation.denied.status = 403
    /\ classifyIn.mutation.nonexistent = classifyIn.mutation.allowed
    /\ out.useful

\* C7: if allowed.status is 403 the verdict is not useful, whatever the denied
\* and nonexistent outcomes and whatever the (action, mutation) pair.
C7_Allowed403NotUseful ==
  \A out \in classifyOut :
    classifyIn.mutation.allowed.status = 403 => ~out.useful

\* allowed answered 403 for a safe-listed pair whose denied target answered 403
C7_Witness ==
  \E out \in classifyOut :
    /\ classifyIn.mutation.allowed.status = 403
    /\ classifyIn.mutation.denied.status = 403
    /\ classifyIn.mutation.nonexistent.status = 404
    /\ OnSafeList(classifyIn.actionName, classifyIn.mutationName)
    /\ ~out.useful

\* C8: a triple whose allowed.status is a success status (200..299) is useful
\* only if the pair is on the safe list, allowed.status is 200 and
\* denied.status is 403.
C8_SuccessUsefulOnlyByNoOpRule ==
  \A out \in classifyOut :
    (classifyIn.mutation.allowed.status \in 200..299 /\ out.useful) =>
      /\ OnSafeList(classifyIn.actionName, classifyIn.mutationName)
      /\ classifyIn.mutation.allowed.status = 200
      /\ classifyIn.mutation.denied.status = 403

\* allowed=200, denied=403, nonexistent=404 for a pair off the safe list: not useful
C8_Witness ==
  \E out \in classifyOut :
    /\ classifyIn.mutation.allowed.status = 200
    /\ classifyIn.mutation.denied.status = 403
    /\ classifyIn.mutation.nonexistent.status = 404
    /\ classifyIn.actionName = Some("Publish")
    /\ ~out.useful

\* C10: denied.status = 403, allowed.status a 4xx other than 403,
\* nonexistent.status 403 or 404, and the nonexistent outcome not equal to the
\* allowed one in both status and error code: useful, with a reason that says
\* safe probe, auth passed.
C10_SafeProbe ==
  \A out \in classifyOut :
    LET t == classifyIn.mutation
    IN  ( /\ t.denied.status = 403
          /\ t.allowed.status \in 400..499 /\ t.allowed.status # 403
          /\ t.nonexistent.status \in {403, 404}
          /\ ~(t.nonexistent.status = t.allowed.status /\ t.nonexistent.error = t.allowed.error) )
        => /\ out.useful
           /\ out.reason[1] = "Safe probe: auth passed then \""

\* allowed=404 and nonexistent=404 with different codes is a safe probe
C10_Witness ==
  \E out \in classifyOut :
    /\ classifyIn.mutation.denied.status = 403
    /\ classifyIn.mutation.allowed.status = 404
    /\ classifyIn.mutation.nonexistent.status = 404
    /\ classifyIn.mutation.nonexistent.error # classifyIn.mutation.allowed.error
    /\ out.useful

\* ------------------------------------------------------------------------
\* Properties of the request-mutations run

\* the catalog mutations that change the allowed baseline of an action, in catalog order
ChangingMutations(action, allowedTopicArn) ==
  LET base == buildParams(action, allowedTopicArn)
      changes(name) == ~StructurallyEqual(Apply(name, base, allowedTopicArn), base)
  IN  SelectSeq(getMutationsForAction(action.name), changes)

MutationNamesOf(results) == [i \in 1..Len(results) |-> results[i].mutationName]

IsPrefix(short, long) ==
  /\ Len(short) <= Len(long)
  /\ \A i \in 1..Len(short) : short[i] = long[i]

\* the run is a request-mutations run
RequestMutationsRun == pc # "idle" /\ Dispatch(options) = "request-mutations"

RunStarted ==
  /\ RequestMutationsRun
  /\ pc \in {"send", "await", "blocked", "done"} \/ (pc = "failed" /\ actionIdx > 0)

\* C4: no request is sent and no result is recorded for an (action, mutation)
\* pair whose mutated allowed parameters equal the baseline: the mutations of
\* every action record are exactly the catalog mutations that change the
\* action's baseline, once each and in catalog order, and every request of the
\* action under test belongs to such a mutation or to the baseline.
C4_UnchangedMutationsSkipped ==
  RunStarted =>
    /\ \A i \in 1..Len(actionResults) :
         /\ actionResults[i].action = actions[i].name
         /\ MutationNamesOf(actionResults[i].mutations)
              = ChangingMutations(actions[i], ctx.allowedTopicArn)
    /\ actionIdx > Len(actionResults) =>
         IsPrefix(MutationNamesOf(mutationResults),
                  ChangingMutations(actions[actionIdx], ctx.allowedTopicArn))
    /\ \A name \in {trace[i].action : i \in 1..Len(trace)} :
         LET action == CHOOSE a \in Range(ALL_ACTIONS) : a.name = name
             changing == Range(ChangingMutations(action, ctx.allowedTopicArn))
         IN  \A i \in 1..Len(trace) :
               trace[i].action = name =>
                 trace[i].phase = "baseline" \/ trace[i].phase \in changing

\* the run recorded Publish with exactly its five changing mutations
C4_Witness ==
  /\ RequestMutationsRun
  /\ \E i \in 1..Len(actionResults) :
       /\ actionResults[i].action = "Publish"
       /\ MutationNamesOf(actionResults[i].mutations)
            = <<"remove-action", "remove-version", "remove-message", "empty-message",
                "long-subject">>

\* the k-th request of the trace and what followed it
SendAt(k) == trace[2 * k - 1]

NumSends == (Len(trace) + 1) \div 2

\* C5: requests of one action are strictly sequential: at most one request is
\* in flight; every request is answered before the next is sent; the first
\* three requests are the baseline for allowed, denied, nonexistent, in that
\* order, and every later group of three is one mutation for allowed, denied,
\* nonexistent, in that order.
C5_StrictlySequential ==
  RequestMutationsRun =>
  /\ Cardinality(inflight) <= 1
  /\ \A i \in 1..Len(trace) :
       /\ (trace[i].ev = "send") <=> (i % 2 = 1)
       /\ trace[i].action = trace[1].action
       /\ i % 2 = 0 => /\ trace[i].phase = trace[i - 1].phase
                       /\ trace[i].target = trace[i - 1].target
  /\ \A k \in 1..NumSends :
       /\ SendAt(k).target = Targets[((k - 1) % 3) + 1]
       /\ (SendAt(k).phase = "baseline") <=> (k <= 3)
       /\ (k - 1) % 3 # 0 => SendAt(k).phase = SendAt(k - 1).phase
  /\ (pc \in {"await", "blocked"} /\ actionIdx > 0)
       <=> (Cardinality(inflight) = 1 /\ Len(trace) % 2 = 1)

\* the three requests of a mutation followed the three answered baseline requests
C5_Witness ==
  /\ RequestMutationsRun
  /\ Len(trace) = 12
  /\ trace[6] = [ev |-> "recv", action |-> "GetTopicAttributes", phase |-> "baseline",
                 target |-> "nonexistent"]
  /\ trace[7] = [ev |-> "send", action |-> "GetTopicAttributes", phase |-> "remove-action",
                 target |-> "allowed"]
  /\ trace[11].target = "nonexistent"

AllRecordedResults ==
  {<<actions[actionIdx].name, mutationResults[j]>> : j \in 1..Len(mutationResults)}
    \cup UNION { {<<actionResults[i].action, actionResults[i].mutations[j]>> :
                    j \in 1..Len(actionResults[i].mutations)} : i \in 1..Len(actionResults) }

\* C6: a transport failure on a leg of a mutation's triple does not abort the
\* run: the mutation is recorded as inconclusive and the prober goes on.
C6_TransportFailureIsLocal ==
  ( /\ RequestMutationsRun
    /\ trace # <<>> /\ trace[Len(trace)].ev = "fail" /\ trace[Len(trace)].phase # "baseline" ) =>
    /\ pc # "failed"
    /\ \E r \in AllRecordedResults :
         /\ r[1] = trace[Len(trace)].action
         /\ r[2].mutationName = trace[Len(trace)].phase
         /\ ~r[2].useful
         /\ ReasonCategory(r[2].reason) = "inconclusive"

NoOpReason == <<"No-op probe: 200 success with no side effects">>

\* C9: for a pair on the safe list, allowed.status = 200 and denied.status = 403
\* give useful = true with the no-op probe reason, for every allowed error code
\* and every nonexistent outcome; and the prober passes the names so that the
\* recorded result of a safe-listed pair with such a triple is a useful no-op
\* probe.
C9_NoOpProbe ==
  /\ \A names \in NamePairs, allowedCode \in Codes, deniedCode \in Codes,
        nonexistent \in TopicResults :
       OnSafeList(names.action, names.mutation) =>
         isUsefulMutation([allowed |-> topicResult(200, allowedCode),
                           denied |-> topicResult(403, deniedCode),
                           nonexistent |-> nonexistent],
                          names.mutation, names.action)
           = [useful |-> TRUE, reason |-> NoOpReason]
  /\ RequestMutationsRun =>
       \A r \in AllRecordedResults :
         ( /\ OnSafeList(Some(r[1]), Some(r[2].mutationName))
           /\ r[2].allowed.status = 200
           /\ r[2].denied.status = 403 )
         => r[2].useful /\ r[2].reason = NoOpReason

\* the run recorded UntagResource with nonexistent-tag-key as a useful no-op probe
C9_Witness ==
  /\ RequestMutationsRun
  /\ \E i \in 1..Len(actionResults) :
       /\ actionResults[i].action = "UntagResource"
       /\ \E j \in 1..Len(actionResults[i].usefulMutations) :
            /\ actionResults[i].usefulMutations[j].mutationName = "nonexistent-tag-key"
            /\ actionResults[i].usefulMutations[j].allowed.status = 200
            /\ actionResults[i].usefulMutations[j].denied.status = 403
            /\ actionResults[i].usefulMutations[j].reason = NoOpReason

\* the reason says pre-auth validation
IsPreAuthReason(reason) ==
  ReasonCategory(reason) \in {"pre-auth validation: identical failure",
                              "pre-auth validation: nonexistent reproduces"}

\* C11: when allowed.status is not 403 and the no-op rule does not apply, an
\* allowed error reproduced on the denied target (status other than 403, same
\* error code) or, with denied.status = 403, on the nonexistent target (same
\* status and same error code) is never useful, and the reason mentions
\* pre-auth validation.
C11_PreAuthNeverUseful ==
  \A out \in classifyOut :
    LET t == classifyIn.mutation
        noOp == /\ OnSafeList(classifyIn.actionName, classifyIn.mutationName)
                /\ t.allowed.status = 200 /\ t.denied.status = 403
        reproduced ==
          \/ t.denied.status # 403 /\ t.denied.error = t.allowed.error
          \/ /\ t.denied.status = 403
             /\ t.nonexistent.status = t.allowed.status
             /\ t.nonexistent.error = t.allowed.error
    IN  (t.allowed.status # 403 /\ ~noOp /\ reproduced)
        => ~out.useful /\ IsPreAuthReason(out.reason)

\* allowed and nonexistent both answered 404 without an error code, denied 403
C11_Witness ==
  \E out \in classifyOut :
    LET t == classifyIn.mutation
    IN  /\ t.allowed.status = 404 /\ t.allowed.error = None
        /\ t.denied.status = 403
        /\ t.nonexistent.status = 404 /\ t.nonexistent.error = None
        /\ ~out.useful /\ IsPreAuthReason(out.reason)

\* C12: a mutation is reported useful as a no-op probe only when the three
\* targets answered allowed=200, denied=403 and nonexistent=403.
C12_NoOpNeedsNonexistent403 ==
  \A out \in classifyOut :
    (out.useful /\ ReasonCategory(out.reason) = "no-op probe")
    => /\ classifyIn.mutation.allowed.status = 200
       /\ classifyIn.mutation.denied.status = 403
       /\ classifyIn.mutation.nonexistent.status = 403

SentFor(actionName, topicArn) == [action |-> actionName, topicArn |-> topicArn] \in sentTo

\* C14: in every run mode (read, safe, all) whose action list contains AddPermission,
\* RemovePermission is the next action of the list and is executed against the same
\* target, so that no finished run has sent AddPermission to a topic without having sent
\* RemovePermission to it.
C14_GrantFollowedByRevoke ==
  pc # "idle" =>
    /\ \A i \in 1..Len(actions) :
         actions[i].name = "AddPermission" =>
           i < Len(actions) /\ actions[i + 1].name = "RemovePermission"
    /\ pc = "done" =>
         \A sent \in sentTo :
           sent.action = "AddPermission" => SentFor("RemovePermission", sent.topicArn)

\* ---------------------------------------------------------------------------
\* C15

\* the topic the request of the current leg is addressed to
TargetTopicArn ==
  CASE Dispatch(options) = "probe" -> ctx.topicArn
    [] Dispatch(options) = "session-errors" -> TheOne(ctx.topicArn)
    [] OTHER -> TopicArnOf(ctx, TargetOfLeg(leg))

\* a request of an action of the list is awaited
ActionRequestInFlight == pc = "await" /\ actionIdx > 0

\* session-errors mode: the topic was already tested earlier in the run
NamedEarlier(topicArn) ==
  /\ Dispatch(options) = "session-errors"
  /\ \E k \in 1..(topicIdx - 1) : TheOne(options.sessionErrorsTopics)[k] = topicArn

\* C15 as stated: in probe, compare, request-mutations and session-errors mode no request
\* of an action other than DeleteTopic is sent to a target after the first DeleteTopic
\* request to that target.
C15_NothingAfterDeleteTopic ==
  (ActionRequestInFlight /\ actions[actionIdx].name # "DeleteTopic") =>
    ~ SentFor("DeleteTopic", TargetTopicArn)

\* C15, amended: in every mode DeleteTopic is the last action of each pass over the action
\* list, so within a pass no request of another action follows a DeleteTopic request; over
\* the whole run a target receives a request of another action after DeleteTopic only in
\* session-errors mode, when the same topic is named again on the command line.
C15_DeleteTopicLast ==
  (ActionRequestInFlight /\ actions[actionIdx].name # "DeleteTopic") =>
    /\ \A j \in 1..(actionIdx - 1) : actions[j].name # "DeleteTopic"
    /\ SentFor("DeleteTopic", TargetTopicArn) => NamedEarlier(TargetTopicArn)

\* a session-errors run over two different topics ended after DeleteTopic went to both
C15_Witness ==
  /\ pc = "done"
  /\ Dispatch(options) = "session-errors"
  /\ options.mode = "all"
  /\ TheOne(options.sessionErrorsTopics) = <<AllowedTopicArn, DeniedTopicArnAbroad>>
  /\ SentFor("DeleteTopic", AllowedTopicArn)
  /\ SentFor("DeleteTopic", DeniedTopicArnAbroad)
  /\ SentFor("GetTopicAttributes", DeniedTopicArnAbroad)

\* ---------------------------------------------------------------------------
\* C16

\* the topic ARNs given on the command line of the run
SuppliedTopicArns ==
  CASE Dispatch(options) = "probe" -> {options.topicArn}
    [] Dispatch(options) = "session-errors" -> Range(TheOne(options.sessionErrorsTopics))
    [] OTHER -> {options.topicArn, TheOne(options.compare)}

\* C16: in every mode, with or without the --region override, if any supplied topic ARN is
\* not a well-formed SNS topic ARN then no network request is sent at any point of the run.
C16_MalformedArnSendsNothing ==
  (pc # "idle" /\ \E arn \in SuppliedTopicArns : parseSnsTopicArn(arn) = ArnParseError) =>
    /\ inflight = {}
    /\ wire = <<>>
    /\ sentTo = {}

\* ---------------------------------------------------------------------------
\* C17

\* the run ended: the report is written, or an Error reached main
RunEnded == pc \in {"done", "failed"}

\* C17: a request whose response never arrives does not block the run indefinitely:
\* whenever a request is awaited, the run eventually reaches its end.
C17_NoIndefiniteBlock == (inflight # {}) ~> RunEnded

\* ---------------------------------------------------------------------------
\* C18

\* C18: in every mode each signed request is signed exactly once, immediately before its
\* own transmission, and transmitted exactly once: every signed transmission directly
\* follows the signing of the same request, every signing is directly followed by the
\* transmission of the request it signed, and no request is signed or transmitted twice.
C18_SignedJustBeforeSending ==
  \A i \in 1..Len(wire) :
    /\ (wire[i].ev = "transmit" /\ wire[i].signed) =>
         i > 1 /\ wire[i - 1] = Signing(wire[i].request)
    /\ wire[i].ev = "sign" =>
         i < Len(wire) /\ wire[i + 1] = Transmitting(wire[i].request, TRUE)
    /\ \A j \in 1..Len(wire) : wire[j] = wire[i] => j = i

\* a request-mutations run signed and sent the baseline triple of an action and then the
\* triple of a mutation
C18_Witness ==
  /\ RequestMutationsRun
  /\ Len(wire) = 12
  /\ wire[1].ev = "sign" /\ wire[1].request.phase = "baseline"
  /\ wire[11].ev = "sign" /\ wire[11].request.target = "nonexistent"
  /\ wire[12].ev = "transmit" /\ wire[12].request.phase # "baseline"

\* ---------------------------------------------------------------------------
\* C19

\* the region in the host name of an SNS endpoint is the region the request is signed for
SignedForItsEndpoint(request) ==
  /\ request.signature # None
  /\ TheOne(request.signature).service = "sns"
  /\ request.url = getEndpointForRegion(TheOne(request.signature).region)

\* C19: in request-mutations mode every baseline or mutated request in flight to a member
\* of the triple carries that member's own ARN in the resource-identifying parameter
\* (TopicArn or ResourceArn), is the member's own baseline (or the mutation applied to the
\* member's own baseline with the member's own ARN), goes to the member's endpoint and is
\* signed for the region of that endpoint.
C19_EachLegHitsItsTarget ==
  (RequestMutationsRun /\ ActionRequestInFlight) =>
    \A request \in inflight :
      LET action == actions[actionIdx]
          target == TargetOfLeg(leg)
          own == TopicArnOf(ctx, target)
          ownBaseline == buildParams(action, own)
          ownEndpoint == CASE target = "allowed" -> ctx.allowedEndpoint
                           [] target = "denied" -> ctx.deniedEndpoint
                           [] target = "nonexistent" -> ctx.nonexistentEndpoint
      IN  /\ Get(request.body, Key(action.parameterName)) = {own}
          /\ request.body = IF mutIdx = 0 THEN ownBaseline ELSE Apply(Phase, ownBaseline, own)
          /\ request.url = ownEndpoint
          /\ SignedForItsEndpoint(request)

\* a mutated request is in flight to the denied topic, which lies in another region than
\* the one the allowed topic is addressed in
C19_Witness ==
  /\ RequestMutationsRun
  /\ ActionRequestInFlight
  /\ mutIdx > 0
  /\ TargetOfLeg(leg) = "denied"
  /\ ctx.deniedRegion # ctx.allowedRegion
  /\ ctx.deniedTopicArn # ctx.allowedTopicArn
  /\ \E request \in inflight : request.url = ctx.deniedEndpoint

\* ---------------------------------------------------------------------------
\* C20

\* C20: in a request-mutations run randomUUID is called at most once, and once anything
\* has been sent it has been called exactly once: the nonexistent topic ARN of the run
\* exists before the first request, has the partition, region and account of the allowed
\* topic ARN, service sns and the name nonexistent-<uuid>, differs from the two topics
\* given, and is the only ARN besides those two that any request of the run is sent for,
\* the nonexistent leg of every action and mutation included.
C20_NonexistentArnBuiltOnce ==
  RequestMutationsRun =>
    /\ uuidCalls <= 1
    /\ (inflight # {} \/ wire # <<>> \/ sentTo # {}) =>
         LET nonexistent == ctx.nonexistentTopicArn
             parsed == parseArn(nonexistent)
             allowed == parseArn(options.topicArn)
         IN  /\ uuidCalls = 1
             /\ nonexistent = generateNonexistentTopicArn(options.topicArn, env.guid)
             /\ parsed.partition = allowed.partition
             /\ parsed.region = allowed.region
             /\ parsed.accountId = allowed.accountId
             /\ parsed.service = "sns"
             /\ parsed.resource = "nonexistent-" \o env.guid
             /\ nonexistent \notin {options.topicArn, TheOne(options.compare)}
             /\ {sent.topicArn : sent \in sentTo}
                  \subseteq {options.topicArn, TheOne(options.compare), nonexistent}
             /\ (ActionRequestInFlight /\ TargetOfLeg(leg) = "nonexistent") =>
                  \A request \in inflight :
                    Get(request.body, Key(actions[actionIdx].parameterName)) = {nonexistent}

\* a mutated request of the second or a later action is in flight to the nonexistent topic,
\* after baseline requests went to it
C20_Witness ==
  /\ RequestMutationsRun
  /\ ActionRequestInFlight
  /\ uuidCalls = 1
  /\ actionIdx > 1
  /\ mutIdx > 0
  /\ TargetOfLeg(leg) = "nonexistent"
  /\ SentFor("GetTopicAttributes", ctx.nonexistentTopicArn)
  /\ SentFor(actions[actionIdx].name, ctx.nonexistentTopicArn)

\* ---------------------------------------------------------------------------
\* C21

\* the entries of a parameter map in the opposite insertion order
Reversed(params) == [i \in 1..Len(params) |-> params[Len(params) + 1 - i]]

\* the two maps differ as maps: in their key sets or in the value of a shared key
DifferAsMaps(p, q) ==
  \/ KeySet(p) # KeySet(q)
  \/ \E key \in KeySet(p) \cap KeySet(q) : Get(p, key) # Get(q, key)

\* C21: didMutationChangeParams(original, mutated) is true exactly when the two maps
\* have different key sets or a shared key has a different value, whatever the insertion
\* order of either map; it is false for a map compared with itself and symmetric.
C21_ChangeDetector ==
  \A out \in applyOut :
    LET original == applyIn.params
        mutated == out.params
    IN  /\ didMutationChangeParams(original, mutated) <=> DifferAsMaps(original, mutated)
        /\ didMutationChangeParams(Reversed(original), mutated)
             <=> DifferAsMaps(original, mutated)
        /\ didMutationChangeParams(original, Reversed(mutated))
             <=> DifferAsMaps(original, mutated)
        /\ didMutationChangeParams(mutated, original)
             <=> didMutationChangeParams(original, mutated)
        /\ ~ didMutationChangeParams(original, original)
        /\ ~ didMutationChangeParams(mutated, mutated)
        /\ ~ didMutationChangeParams(mutated, Reversed(mutated))

\* a mutation changed only the value of a parameter: the key sets are equal and the
\* detector reports the change, also against the original read in the opposite order
C21_Witness ==
  \E out \in applyOut :
    /\ KeySet(out.params) = KeySet(applyIn.params)
    /\ Reversed(applyIn.params) # applyIn.params
    /\ didMutationChangeParams(applyIn.params, out.params)
    /\ didMutationChangeParams(Reversed(applyIn.params), out.params)
    /\ ~ didMutationChangeParams(Reversed(applyIn.params), applyIn.params)

\* ---------------------------------------------------------------------------
\* C22

\* the position of a catalog action in ALL_ACTIONS
PositionOf(action) == CHOOSE i \in 1..Len(ALL_ACTIONS) : ALL_ACTIONS[i] = action

\* list holds actions of the catalog, each once, in the order of ALL_ACTIONS
KeepsCatalogOrder(list) ==
  /\ Range(list) \subseteq Range(ALL_ACTIONS)
  /\ \A i, j \in 1..Len(list) : i < j => PositionOf(list[i]) < PositionOf(list[j])

UnsafeActionNames ==
  {"DeleteTopic", "SetTopicAttributes", "RemovePermission", "PutDataProtectionPolicy"}

\* C22: the action list a run works through is the catalog filtered by its mode and not
\* reordered: 'read' gives exactly the 4 actions of category read, 'safe' exactly the 10
\* actions whose safe flag is true (none of DeleteTopic, SetTopicAttributes,
\* RemovePermission, PutDataProtectionPolicy), 'all' all 14 actions; every list keeps the
\* relative order of ALL_ACTIONS and the read list is contained in the safe list.
C22_ModeFiltersCatalog ==
  (pc # "idle" /\ actions # <<>>) =>
    /\ actions = getActionsByMode(options.mode)
    /\ KeepsCatalogOrder(actions)
    /\ options.mode = "read" =>
         /\ Len(actions) = 4
         /\ Range(actions) = {action \in Range(ALL_ACTIONS) : action.category = "read"}
    /\ options.mode = "safe" =>
         /\ Len(actions) = 10
         /\ Range(actions) = {action \in Range(ALL_ACTIONS) : action.safe}
         /\ \A i \in 1..Len(actions) : actions[i].name \notin UnsafeActionNames
         /\ Range(getActionsByMode("read")) \subseteq Range(actions)
    /\ options.mode = "all" =>
         /\ Len(actions) = 14
         /\ actions = ALL_ACTIONS
         /\ Cardinality({actions[i].name : i \in 1..Len(actions)}) = 14

\* a safe-mode run awaits the answer to the request of the tenth and last action of its
\* list, after requests of read actions
C22_Witness ==
  /\ ActionRequestInFlight
  /\ options.mode = "safe"
  /\ actionIdx = 10
  /\ actionIdx = Len(actions)
  /\ actions[actionIdx].name = "AddPermission"
  /\ \E sent \in sentTo : sent.action = "GetTopicAttributes"

\* ---------------------------------------------------------------------------
\* C23

\* the run is a probe run
ProbeRun == pc # "idle" /\ Dispatch(options) = "probe"

\* credentials were loaded and verifyCredentials returned success
CredentialsVerifiedOk ==
  /\ env.credentials # None
  /\ stsResults = <<StsResult("GetCallerIdentity", TRUE)>>

\* C23: in probe mode a signed request is sent for an action only if credentials were
\* loaded and their verification succeeded, and then only after the unsigned request of
\* the same action has been answered; without credentials, or after a failed verification,
\* the run goes on and records exactly one result per action, an unsigned one.
C23_SignedOnlyWhenVerified ==
  ProbeRun =>
    /\ \A request \in inflight :
         (request.signature # None /\ TheOne(request.signature).service = "sns") =>
           /\ CredentialsVerifiedOk
           /\ Len(trace) = 3
           /\ trace[1] = [ProbeEvent("send") EXCEPT !.target = "unsigned"]
           /\ trace[2] = [ProbeEvent("recv") EXCEPT !.target = "unsigned"]
           /\ trace[3] = [ProbeEvent("send") EXCEPT !.target = "signed"]
    /\ (pc # "start" /\ pc # "verify" /\ ~ CredentialsVerifiedOk) =>
         /\ \A i \in 1..Len(actionResults) :
              ~ actionResults[i].signed /\ actionResults[i].action = actions[i].name
         /\ \A i \in 1..Len(wire) : ~ wire[i].signed \/ wire[i].request.phase = "sts"
         /\ error # Some("Credential verification failed")
         /\ pc = "done" => Len(actionResults) = Len(actions)

\* a probe run whose credential verification failed has ended with one unsigned result
\* per action
C23_Witness ==
  /\ ProbeRun
  /\ pc = "done"
  /\ stsResults = <<StsResult("GetCallerIdentity", FALSE)>>
  /\ Len(actionResults) = Len(actions)
  /\ Len(actions) = 14
  /\ \A i \in 1..Len(actionResults) : ~ actionResults[i].signed

\* the request awaited is one of the two probes of SAFE_PROBE_MUTATIONS
SafeProbeInFlight ==
  /\ RequestMutationsRun
  /\ ActionRequestInFlight
  /\ mutIdx > 0
  /\ \/ actions[actionIdx].name = "UntagResource" /\ Phase = "nonexistent-tag-key"
     \/ actions[actionIdx].name = "RemovePermission" /\ Phase = "invalid-label"

\* C24: a safe-listed no-op probe removes nothing: when the UntagResource request mutated
\* by nonexistent-tag-key, or the RemovePermission request mutated by invalid-label, is
\* sent to a target, no earlier request of the run to that target was a TagResource
\* request carrying the same tag key, respectively an AddPermission request carrying the
\* same Label.
C24_NoOpProbeRemovesNothing ==
  SafeProbeInFlight =>
    RemovedBy(CurrentRequest.body, TargetTopicArn) \cap created = {}

C26_UsefulNeedsDenied403 ==
  (classifyOut # None /\ TheOne(classifyOut).useful) =>
    /\ classifyIn.mutation.denied.status = 403
    /\ classifyIn.mutation.allowed.status # 403

\* a safe probe verdict: the allowed target failed validation with 400, the denied one
\* answered 403
C26_Witness ==
  /\ classifyOut # None
  /\ TheOne(classifyOut).useful
  /\ classifyIn.mutation.allowed.status = 400
  /\ classifyIn.mutation.denied.status = 403
  /\ classifyIn.mutation.nonexistent.status = 404

\* the mutation called name changes the baseline of target for the action under test
ChangesBaselineOf(target, name) ==
  didMutationChangeParams(baselineParams[target],
                          MutatedParamsOf(name, baselineParams, ctx)[target])

\* the allowed, denied and nonexistent topic ARNs of the run are well-formed SNS topic ARNs
TripleWellFormed ==
  \A target \in Range(Targets) : parseSnsTopicArn(TopicArnOf(ctx, target)) # ArnParseError

\* testActionMutations has built the three baselines of an action and sends the first
ActionBegins == RequestMutationsRun /\ actionIdx > 0 /\ pc = "send" /\ mutIdx = 0 /\ leg = 1

\* C27: the skip decision taken on the allowed target is valid for the whole triple: for
\* every action of a run with three well-formed ARNs and every catalog mutation, the
\* mutation changes the allowed baseline exactly when it changes the denied baseline and
\* exactly when it changes the nonexistent baseline.
C27_SkipDecisionHoldsForTriple ==
  (ActionBegins /\ TripleWellFormed) =>
    \A j \in 1..Len(getMutationsForAction(actions[actionIdx].name)) :
      LET name == getMutationsForAction(actions[actionIdx].name)[j]
      IN  /\ ChangesBaselineOf("allowed", name) <=> ChangesBaselineOf("denied", name)
          /\ ChangesBaselineOf("allowed", name) <=> ChangesBaselineOf("nonexistent", name)

\* Subscribe begins with a denied topic of another region: endpoint-to-arn, the one
\* mutation that reads the topic ARN, changes all three baselines, remove-message none
C27_Witness ==
  /\ ActionBegins
  /\ TripleWellFormed
  /\ actions[actionIdx].name = "Subscribe"
  /\ ctx.deniedRegion # ctx.allowedRegion
  /\ \A target \in Range(Targets) :
       /\ ChangesBaselineOf(target, "endpoint-to-arn")
       /\ ~ ChangesBaselineOf(target, "remove-message")

\* C28: within one run no HTTP log is overwritten: any two different requests (different
\* action, mutation, target or signed/unsigned) write to different file paths, in probe,
\* compare, request-mutations and session-errors mode, several topics included.
C28_NoLogOverwritten ==
  \A one \in httpLogs, other \in httpLogs :
    one.request # other.request => one.path # other.path

\* the mutation results of a list that are useful, in order
UsefulOf(results) == SelectSeq(results, LAMBDA mutationResult : mutationResult.useful)

RECURSIVE TotalOf(_, _)
\* the sum of the lengths of field over the action records
TotalOf(records, field) ==
  IF records = <<>> THEN 0
  ELSE Len(records[Len(records)][field]) + TotalOf(SubSeq(records, 1, Len(records) - 1), field)

\* C29: the request-mutations report is consistent after any completed run: in every action
\* record usefulMutations is the sub-list of mutations with useful = true, in order;
\* summary.totalMutationsTested is the sum of the lengths of mutations and
\* summary.usefulMutationsFound the sum of the lengths of usefulMutations, which is at
\* most totalMutationsTested; summary.totalActions is the number of action records.
C29_ReportConsistent ==
  (RequestMutationsRun /\ pc = "done") =>
    LET report == TheOne(result)
    IN  /\ \A i \in 1..Len(report.actions) :
             report.actions[i].usefulMutations = UsefulOf(report.actions[i].mutations)
        /\ report.summary.totalMutationsTested = TotalOf(report.actions, "mutations")
        /\ report.summary.usefulMutationsFound = TotalOf(report.actions, "usefulMutations")
        /\ report.summary.usefulMutationsFound <= report.summary.totalMutationsTested
        /\ report.summary.totalActions = Len(report.actions)

\* a completed run over all fourteen actions that found useful mutations and others
C29_Witness ==
  /\ RequestMutationsRun
  /\ pc = "done"
  /\ Len(TheOne(result).actions) = 14
  /\ TheOne(result).summary.usefulMutationsFound > 0
  /\ TheOne(result).summary.usefulMutationsFound < TheOne(result).summary.totalMutationsTested

\* a compare, request-mutations or session-errors run
CredentialedRun ==
  pc # "idle" /\ Dispatch(options) \in {"compare", "request-mutations", "session-errors"}

\* what verifyCredentials and assumeRoleWithPolicy returned so far
StsOutcomes == {stsResults[i] : i \in 1..Len(stsResults)}

\* an SNS request was sent, or is about to leave
SnsRequested == sentTo # {} \/ (pc = "await" /\ actionIdx > 0)

\* C30: in compare, request-mutations and session-errors mode no SNS request is sent unless
\* credentials were loaded and the STS verification succeeded and, in session-errors mode,
\* the role was assumed with the deny-all session policy; a missing credential, a failed
\* verification or a failed role assumption aborts the run with no SNS request sent.
C30_NoRequestWithoutVerifiedCredentials ==
  CredentialedRun =>
    /\ SnsRequested =>
         /\ env.credentials # None
         /\ StsResult("GetCallerIdentity", TRUE) \in StsOutcomes
         /\ Dispatch(options) = "session-errors" =>
              /\ StsResult("AssumeRole", TRUE) \in StsOutcomes
              /\ ctx.credentials = Some(SessionCredentials)
    /\ pc = "assume" =>
         \A request \in inflight : Get(request.body, Key("Policy")) = {Str(DENY_ALL_POLICY)}
    /\ (env.credentials = None /\ pc # "start") => (pc = "failed" /\ sentTo = {})
    /\ (\E outcome \in StsOutcomes : ~ outcome.success) => (pc = "failed" /\ sentTo = {})

\* a session-errors run has sent requests to a topic with the credentials of the assumed
\* role, after both STS calls succeeded
C30_Witness ==
  /\ CredentialedRun
  /\ Dispatch(options) = "session-errors"
  /\ sentTo # {}
  /\ pc = "await"
  /\ stsResults = <<StsResult("GetCallerIdentity", TRUE), StsResult("AssumeRole", TRUE)>>
  /\ \A request \in inflight : TheOne(request.signature).accessKeyId = "ASIAEXAMPLE"

====
